---- MODULE Spec2Model ----
(***************************************************************************)
(* Model of the PhenoStore example application (package app).              *)
(*                                                                         *)
(* The module follows one process: the menu loop of MainMenu, the action   *)
(* PatientSummary it dispatches to, the spinner action PatientSummary      *)
(* runs, and the four goroutines that action launches.  The Store (the     *)
(* SDK client) is the environment: each of its calls takes a duration and  *)
(* returns one of the outcomes the SDK can deliver.                        *)
(*                                                                         *)
(* Time is discrete.  The user at the menu and the Store calls of the      *)
(* goroutines take time; every other statement is instantaneous, so        *)
(* during a fetch the clock advances only when every thread is blocked on  *)
(* a Store call or on the join.  The program observes differences of       *)
(* clock values only (time.Since), so the clock counts from the moment     *)
(* the menu was last offered.                                              *)
(*                                                                         *)
(* Error values are records of a kind (what errors.Is/As can find in the   *)
(* chain) and the text of Error(); fmt.Errorf("a: %w", e) keeps the kind   *)
(* of e and prefixes its text.                                             *)
(***************************************************************************)
EXTENDS Integers, Sequences, FiniteSets, TLC

----------------------------------------------------------------------------
(* Bounds of the model *)

\* longest Store call, in clock ticks
MaxDur == 2
\* longest time the menu waits for the user, in clock ticks
MaxIdle == 1
\* the largest number of SeedData runs the Store has seen before the process
\* starts
MaxEarlierRuns == 4
\* the largest number of resources of one type that do not carry the seed tag
MaxOwn == 1
\* the largest number of ids on a page of searchByTag when the content of
\* the Store is left open
MaxPage == 2
\* the largest number of patients ClinicDashboard resolves the name of
MaxNames == 2
\* the largest number of activities of a care plan
MaxActivities == 3

----------------------------------------------------------------------------
(* Values *)

\* the four fetches, named by the resource type they ask the Store for
Tasks == {"Patient", "Observation", "Condition", "CarePlan"}

\* the go statements of the action, in program order
GoOrder == <<"Patient", "Observation", "Condition", "CarePlan">>

\* threads: the caller, the spinner's action, one goroutine per fetch
Threads == {"main", "action"} \cup Tasks

\* variables captured by the closures of PatientSummary
ResultVars == {"patient", "observations", "conditions", "plans"}
ErrVars == {"patientErr", "observationsErr", "conditionsErr", "plansErr"}
SharedVars == ResultVars \cup ErrVars \cup {"apiErr", "elapsed", "patientID"}

\* a nil error
NoErr == [kind |-> "nil", msg |-> ""]

\* the patient lists SearchResources("Patient") may return
PatientLists == {<<>>, <<"p1", "p2">>}

\* a resource payload
Res(type, id) == [type |-> type, id |-> id]

\* a bundle entry without a resource
NoResource == [type |-> "none", id |-> "none"]

\* a bundle without an entry list
NoEntry == [hasEntry |-> FALSE, entry |-> <<>>]

\* the bundles a search for resources of a type may return
Bundles(type) ==
    { NoEntry,
      [hasEntry |-> TRUE, entry |-> <<NoResource, Res(type, "a")>>] }

\* the messages of the SDK's transport errors
TransportMsgs == {"connection reset", "timeout"}

\* errors of the SDK
SdkErrors == [kind : {"Transport"}, msg : TransportMsgs]

\* the SDK's not-found error of ReadResource
NotFoundErr == [kind |-> "NotFound", msg |-> "resource not found"]

\* what ReadResource("Patient", id) may return
ReadResponses(id) ==
    { [raw |-> <<Res("Patient", id)>>, err |-> NoErr],
      [raw |-> <<>>, err |-> NotFoundErr] }
    \cup { [raw |-> <<>>, err |-> e] : e \in SdkErrors }

\* what SearchResourcesWithResponse may return for a resource type: an
\* error of the SDK, or an HTTP response with a status and a body that
\* is a bundle or does not parse
SearchResponses(type) ==
    { [err |-> e, status |-> 0, valid |-> FALSE, bundle |-> NoEntry] :
        e \in SdkErrors }
    \cup { [err |-> NoErr, status |-> 500, valid |-> TRUE, bundle |-> NoEntry],
           [err |-> NoErr, status |-> 200, valid |-> FALSE, bundle |-> NoEntry] }
    \cup { [err |-> NoErr, status |-> 200, valid |-> TRUE, bundle |-> b] :
           b \in Bundles(type) }

\* the resource types DeleteSeedData walks through, in its order
resourceTypes == <<"CarePlan", "Observation", "Condition", "Patient">>

\* the number of resources of each type in the bundle of one SeedData run
SeedUnit == [Patient |-> 5, Observation |-> 51, Condition |-> 10, CarePlan |-> 8]

\* the page size searchByTag asks for
SearchCount == 200

\* The content of the Store: for every resource type the number of
\* resources that carry the seed tag and the number of those that do not.
\* The Store after k runs of SeedData, with n untagged resources per type:
Seeded(k, n) ==
    [t \in Tasks |-> [seed |-> k * SeedUnit[t], own |-> n]]

\* resource ids, by whether the resource carries the seed tag: a list of
\* ids is the number of tagged ones, which come first, and of untagged ones
NoIds == [seed |-> 0, own |-> 0]

Min(a, b) == IF a <= b THEN a ELSE b

\* the Store without regard for the _tag parameter: one page of the
\* resources of the type
AnyPage(s, type) ==
    LET n == Min(s[type].seed + s[type].own, SearchCount)
        o == Min(s[type].own, n)
    IN  [seed |-> n - o, own |-> o]

\* the Store's answer to a search with _tag and _count: one page, of at
\* most _count entries, of the resources of the type that carry the tag
TaggedPage(s, type) == [seed |-> Min(s[type].seed, SearchCount), own |-> 0]

\* what SearchResourcesWithResponse may return to searchByTag
TagSearchResponses(s, type) ==
    { [err |-> e, status |-> 0, valid |-> FALSE, page |-> NoIds] :
        e \in SdkErrors }
    \cup { [err |-> NoErr, status |-> 500, valid |-> TRUE, page |-> NoIds],
           [err |-> NoErr, status |-> 200, valid |-> FALSE, page |-> NoIds],
           [err |-> NoErr, status |-> 200, valid |-> TRUE,
            page |-> TaggedPage(s, type)] }

\* The value of PHENOSTORE_URL as it is written: whether url.Parse accepts
\* the string, the scheme, host and port as written (an IPv6 host within
\* brackets, a port with its colon) and the path
RawURLs ==
    [ok : BOOLEAN,
     scheme : {"", "http", "HTTP", "https", "Https", "ftp"},
     host : {"", "localhost", "LocalHost", "127.0.0.1", "[::1]",
             "example.com"},
     port : {"", ":8080"},
     path : {"", "/fhir"}]

\* the empty string
EmptyURL == [ok |-> TRUE, scheme |-> "", host |-> "", port |-> "", path |-> ""]

\* the error phenostore.NewClient may return
NewClientErr == [kind |-> "Config", msg |-> "invalid client configuration"]

\* What the process is started with: the five PHENOSTORE_* variables after
\* godotenv.Load (the other four empty or not), and what
\* phenostore.NewClient answers when it is called
Environs ==
    [url : RawURLs, clientID : {"", "demo"}, clientSecret : {"", "demo"},
     tenant : {"", "demo"}, store : {"", "demo"},
     newClient : {NoErr, NewClientErr}]

\* the configuration of the README
DemoEnviron ==
    [url |-> [ok |-> TRUE, scheme |-> "https", host |-> "example.com",
              port |-> "", path |-> ""],
     clientID |-> "demo", clientSecret |-> "demo", tenant |-> "demo",
     store |-> "demo", newClient |-> NoErr]

\* what the Store may return to the fetch of a task
Responses(t, id) ==
    IF t = "Patient" THEN ReadResponses(id) ELSE SearchResponses(t)

----------------------------------------------------------------------------
(* Pure functions *)

\* fmt.Errorf(prefix + "%w", e)
Wrap(prefix, e) == [kind |-> e.kind, msg |-> prefix \o e.msg]

\* fmt.Errorf without %w
Errorf(text) == [kind |-> "Plain", msg |-> text]

\* the error json.Unmarshal returns for a body that does not parse
UnmarshalErr == [kind |-> "Syntax", msg |-> "unexpected end of JSON input"]

\* phenostore.IsNotFound
IsNotFound(e) == e.kind = "NotFound"

RECURSIVE CollectResources(_)
\* the loop of extractResources over the entries
CollectResources(entries) ==
    IF entries = <<>> THEN <<>>
    ELSE IF Head(entries) # NoResource
         THEN <<Head(entries)>> \o CollectResources(Tail(entries))
         ELSE CollectResources(Tail(entries))

extractResources(bundle) ==
    IF ~bundle.hasEntry THEN <<>> ELSE CollectResources(bundle.entry)

\* searchByPatient returning the error of the SDK as it is
searchByPatientBare(resourceType, resp) ==
    IF resp.err # NoErr
    THEN [res |-> <<>>, err |-> resp.err]
    ELSE IF resp.status >= 400
    THEN [res |-> <<>>,
          err |-> Errorf("search " \o resourceType \o " failed: HTTP "
                         \o ToString(resp.status))]
    ELSE IF ~resp.valid
    THEN [res |-> <<>>,
          err |-> Wrap("parsing " \o resourceType \o " response: ",
                       UnmarshalErr)]
    ELSE [res |-> extractResources(resp.bundle), err |-> NoErr]

\* searchByPatient applied to the response of the Store
searchByPatient(resourceType, resp) ==
    IF resp.err # NoErr
    THEN [res |-> <<>>,
          err |-> Wrap("searching " \o resourceType \o ": ", resp.err)]
    ELSE IF resp.status >= 400
    THEN [res |-> <<>>,
          err |-> Errorf("search " \o resourceType \o " failed: HTTP "
                         \o ToString(resp.status))]
    ELSE IF ~resp.valid
    THEN [res |-> <<>>,
          err |-> Wrap("parsing " \o resourceType \o " response: ",
                       UnmarshalErr)]
    ELSE [res |-> extractResources(resp.bundle), err |-> NoErr]

\* the error selection without the not-found case
SelectErrorGeneric(e, patientID) ==
    IF e["patientErr"] # NoErr
    THEN Wrap("reading patient: ", e["patientErr"])
    ELSE IF e["observationsErr"] # NoErr
    THEN Wrap("loading observations: ", e["observationsErr"])
    ELSE IF e["conditionsErr"] # NoErr
    THEN Wrap("loading conditions: ", e["conditionsErr"])
    ELSE IF e["plansErr"] # NoErr
    THEN Wrap("loading care plans: ", e["plansErr"])
    ELSE NoErr

\* the error selection with conditions looked at before observations
SelectErrorSwapped(e, patientID) ==
    IF IsNotFound(e["patientErr"])
    THEN Errorf("patient " \o patientID \o " not found")
    ELSE IF e["patientErr"] # NoErr
    THEN Wrap("reading patient: ", e["patientErr"])
    ELSE IF e["conditionsErr"] # NoErr
    THEN Wrap("loading conditions: ", e["conditionsErr"])
    ELSE IF e["observationsErr"] # NoErr
    THEN Wrap("loading observations: ", e["observationsErr"])
    ELSE IF e["plansErr"] # NoErr
    THEN Wrap("loading care plans: ", e["plansErr"])
    ELSE NoErr

\* the error-selection code of the action; e maps the four error
\* holders to their values
SelectError(e, patientID) ==
    IF IsNotFound(e["patientErr"])
    THEN Errorf("patient " \o patientID \o " not found")
    ELSE IF e["patientErr"] # NoErr
    THEN Wrap("reading patient: ", e["patientErr"])
    ELSE IF e["observationsErr"] # NoErr
    THEN Wrap("loading observations: ", e["observationsErr"])
    ELSE IF e["conditionsErr"] # NoErr
    THEN Wrap("loading conditions: ", e["conditionsErr"])
    ELSE IF e["plansErr"] # NoErr
    THEN Wrap("loading care plans: ", e["plansErr"])
    ELSE NoErr

\* the error holders the error-selection code reads before it returns
SelectReads(e) ==
    IF e["patientErr"] # NoErr THEN <<"patientErr">>
    ELSE IF e["observationsErr"] # NoErr
    THEN <<"patientErr", "observationsErr">>
    ELSE IF e["conditionsErr"] # NoErr
    THEN <<"patientErr", "observationsErr", "conditionsErr">>
    ELSE <<"patientErr", "observationsErr", "conditionsErr", "plansErr">>

\* the conditions goroutine assigning the observations variable
ResultVarOfCrossed(t) ==
    CASE t = "Patient" -> "patient"
      [] t = "Observation" -> "observations"
      [] t = "Condition" -> "observations"
      [] t = "CarePlan" -> "plans"

\* the result variable the goroutine of a task assigns
ResultVarOf(t) ==
    CASE t = "Patient" -> "patient"
      [] t = "Observation" -> "observations"
      [] t = "Condition" -> "conditions"
      [] t = "CarePlan" -> "plans"

\* the conditions goroutine assigning the observations error holder
ErrVarOfCrossed(t) ==
    CASE t = "Patient" -> "patientErr"
      [] t = "Observation" -> "observationsErr"
      [] t = "Condition" -> "observationsErr"
      [] t = "CarePlan" -> "plansErr"

\* the error holder the goroutine of a task assigns
ErrVarOf(t) ==
    CASE t = "Patient" -> "patientErr"
      [] t = "Observation" -> "observationsErr"
      [] t = "Condition" -> "conditionsErr"
      [] t = "CarePlan" -> "plansErr"

\* the clock value itself instead of the time since start
SinceEpoch(start, now) == now

\* time.Since(start) at the clock value now
Since(start, now) == now - start

\* wg.Add with one goroutine too many
WgAddLong == 4 + 1

\* wg.Add with one goroutine too few
WgAddShort == 4 - 1

\* the argument of wg.Add
WgAdd == 4

\* searchByTag on a response of the SDK: the ids of the page, or an error
searchByTag(type, resp) ==
    IF resp.err # NoErr
    THEN [ids |-> NoIds, err |-> Wrap("searching " \o type \o ": ", resp.err)]
    ELSE IF resp.status >= 400
    THEN [ids |-> NoIds,
          err |-> Errorf("search " \o type \o " failed: HTTP "
                         \o ToString(resp.status))]
    ELSE IF ~resp.valid
    THEN [ids |-> NoIds, err |-> Wrap("parsing response: ", UnmarshalErr)]
    ELSE [ids |-> resp.page, err |-> NoErr]

\* strings.ToLower on the strings of the model
ToLower(s) ==
    CASE s = "HTTP" -> "http"
      [] s = "Https" -> "https"
      [] s = "LocalHost" -> "localhost"
      [] OTHER -> s

\* url.Parse: an error, or the URL with its scheme in lower case and the
\* host and port of its authority
Parse(rawURL) ==
    [err |-> ~rawURL.ok, Scheme |-> ToLower(rawURL.scheme),
     Host |-> [name |-> rawURL.host, port |-> rawURL.port]]

\* URL.Hostname: the host without the port and without the brackets
Hostname(h) == IF h.name = "[::1]" THEN "::1" ELSE h.name

\* a validation that lets every http host pass
validatePhenoStoreURLAnyHost(rawURL) ==
    LET parsed == Parse(rawURL)
    IN  IF \/ parsed.err
           \/ parsed.Scheme = ""
           \/ parsed.Host = [name |-> "", port |-> ""]
        THEN Errorf("invalid PHENOSTORE_URL: must be an absolute URL")
        ELSE IF ToLower(parsed.Scheme) \in {"https", "http"} THEN NoErr
        ELSE Errorf("invalid PHENOSTORE_URL: must use https (http is only allowed for localhost)")

validatePhenoStoreURL(rawURL) ==
    LET parsed == Parse(rawURL)
        host == ToLower(Hostname(parsed.Host))
    IN  IF \/ parsed.err
           \/ parsed.Scheme = ""
           \/ parsed.Host = [name |-> "", port |-> ""]
        THEN Errorf("invalid PHENOSTORE_URL: must be an absolute URL")
        ELSE IF ToLower(parsed.Scheme) = "https" THEN NoErr
        ELSE IF /\ ToLower(parsed.Scheme) = "http"
                /\ host \in {"localhost", "127.0.0.1", "::1"}
        THEN NoErr
        ELSE Errorf("invalid PHENOSTORE_URL: must use https (http is only allowed for localhost)")

\* Initialize in environment e: the error it returns, and whether it
\* assigned a.Client
InitializeResult(e) ==
    IF \/ e.url = EmptyURL
       \/ "" \in {e.clientID, e.clientSecret, e.tenant, e.store}
    THEN [err |-> Errorf("missing required environment variables: PHENOSTORE_URL, PHENOSTORE_CLIENT_ID, PHENOSTORE_CLIENT_SECRET, PHENOSTORE_TENANT, PHENOSTORE_STORE"),
          client |-> FALSE]
    ELSE IF validatePhenoStoreURL(e.url) # NoErr
    THEN [err |-> validatePhenoStoreURL(e.url), client |-> FALSE]
    ELSE IF e.newClient # NoErr
    THEN [err |-> Wrap("creating client: ", e.newClient), client |-> FALSE]
    ELSE [err |-> NoErr, client |-> TRUE]

\* main going on to the menu whatever Initialize returned
MainAfterIgnore(e) == "menu"

\* main after Initialize returned e
MainAfter(e) == IF e # NoErr THEN "exit" ELSE "menu"

\* The activities of a care plan as CompleteActivity reads them: whether
\* the element is a JSON object, whether it has a detail object, and the
\* string detail.status ("" when it is missing or not a string).  Indexes
\* count from 1.
\* The options of the activity select: the indexes of the activities with
\* a detail whose status is not "completed"
IncompleteOptions(activities) ==
    SelectSeq([i \in 1..Len(activities) |-> i],
              LAMBDA i : /\ activities[i].isMap
                         /\ activities[i].hasDetail
                         /\ activities[i].status # "completed")

\* the completion looking at the activities as they were read
completeActivityStale(carePlanRead, actIdx) ==
    LET activities ==
            [carePlanRead.activity EXCEPT ![actIdx].status = "completed"]
        s(a) == IF a.isMap /\ a.hasDetail THEN a.status ELSE ""
        done == \A j \in 1..Len(activities) :
                    s(carePlanRead.activity[j]) = "completed"
    IN  [body |-> [status |-> IF done THEN "completed"
                              ELSE carePlanRead.status,
                   activity |-> activities],
         allDone |-> done]

\* CompleteActivity after the select: the status of the selected activity
\* is set, allDone is computed over all activities, the status of the
\* plan is set when allDone; the body of the update and allDone
completeActivity(carePlanRead, actIdx) ==
    LET activities ==
            [carePlanRead.activity EXCEPT ![actIdx].status = "completed"]
        s(a) == IF a.isMap /\ a.hasDetail THEN a.status ELSE ""
        done == \A j \in 1..Len(activities) : s(activities[j]) = "completed"
    IN  [body |-> [status |-> IF done THEN "completed"
                              ELSE carePlanRead.status,
                   activity |-> activities],
         allDone |-> done]

\* a confirm prompt going on whatever the answer
ProceedsAlways(e, answer) == TRUE

\* after a confirm prompt: the action goes on unless the prompt failed or
\* the answer is no
Proceeds(e, answer) == ~(e # NoErr \/ ~answer)

----------------------------------------------------------------------------
(* Happens-before bookkeeping (the Go memory model): every thread has a    *)
(* vector clock; a go statement, wg.Done followed by the return of         *)
(* wg.Wait, and the start and the return of the spinner's Run order the    *)
(* statements before them with the statements after them.  Two accesses    *)
(* of a variable, one of them a write, that are not ordered are a data     *)
(* race.                                                                   *)

ZeroClock == [u \in Threads |-> 0]

\* the clock of a thread that has not synchronised with any other
InitClock(t) == [u \in Threads |-> IF u = t THEN 1 ELSE 0]

\* pointwise maximum of two clocks
Join(a, b) == [u \in Threads |-> IF a[u] > b[u] THEN a[u] ELSE b[u]]

\* the clock of thread t after a release
Advance(c, t) == [c EXCEPT ![t] = @ + 1]

\* a read of v by thread t with clock c
DoRead(d, c, t, v) ==
    [d EXCEPT !.R[v][t] = c[t],
              !.race = IF \E u \in Threads \ {t} : d.W[v][u] > c[u]
                       THEN @ \cup {v} ELSE @]

\* a write of v by thread t with clock c
DoWrite(d, c, t, v) ==
    [d EXCEPT !.W[v][t] = c[t],
              !.race = IF \E u \in Threads \ {t} :
                             d.W[v][u] > c[u] \/ d.R[v][u] > c[u]
                       THEN @ \cup {v} ELSE @]

RECURSIVE DoAccesses(_, _, _, _)
\* the accesses acc (pairs of "r" or "w" and a variable) by thread t
DoAccesses(d, c, t, acc) ==
    IF acc = <<>> THEN d
    ELSE DoAccesses(IF Head(acc)[1] = "r"
                    THEN DoRead(d, c, t, Head(acc)[2])
                    ELSE DoWrite(d, c, t, Head(acc)[2]),
                    c, t, Tail(acc))

RECURSIVE LogWrites(_, _, _)
\* the write log after the writes among the accesses acc by thread t
LogWrites(w, t, acc) ==
    IF acc = <<>> THEN w
    ELSE LogWrites(IF Head(acc)[1] = "w"
                   THEN [w EXCEPT ![Head(acc)[2]] = Append(@, t)]
                   ELSE w,
                   t, Tail(acc))

NoAccess == [W |-> [v \in SharedVars |-> ZeroClock],
             R |-> [v \in SharedVars |-> ZeroClock],
             race |-> {}]

----------------------------------------------------------------------------
(* State *)

VARIABLES
    pc,          \* position of the caller: MainMenu, PickPatient, PatientSummary
    options,     \* the options of the patient select
    patientID,   \* PatientSummary: patientID
    err,         \* PatientSummary: err
    slot,        \* PatientSummary: patient, observations, conditions, plans
    errh,        \* action: patientErr, observationsErr, conditionsErr, plansErr
    apiErr,      \* PatientSummary: apiErr
    elapsed,     \* PatientSummary: elapsed
    start,       \* action: start
    apc,         \* position of the spinner's action
    spawned,     \* number of go statements the action has executed
    wg,          \* counter of the WaitGroup
    gpc,         \* position of the goroutine of each task
    now,         \* the clock
    deadline,    \* clock value at which the Store call of a task returns
    dur,         \* duration of the running Store call of each task
    slowest,     \* the longest duration of the Store calls that returned
    calls,       \* number of Store calls started for each task
    fetched,     \* what the fetch of each task returned
    vc,          \* vector clock of each thread
    wgvc,        \* vector clock of the WaitGroup
    det,         \* last accesses of each variable, and the races found
    writers,     \* the threads that wrote each variable, in order
    shown,       \* what the invocation displayed
    callerReads, \* the variables the caller read after Run returned
    store,       \* the content of the Store
    menus,       \* the menu functions that are running, innermost last
    act,         \* the action the innermost menu dispatched to
    confirm,     \* the answer a confirm prompt of the action left
    rt,          \* DeleteSeedData: index of rt in resourceTypes
    ids,         \* DeleteSeedData: the ids still to delete
    deleted,     \* DeleteSeedData: deleted
    issued,      \* the Store calls the action has issued: number, last one
    environ,     \* the environment the process was started in
    client,      \* App.Client
    exitStatus,  \* the exit status of the process
    sel,         \* what the last select of a menu returned
    step,        \* the stage of its function the action is in
    callIx,      \* the number of Store calls the running stage has made
    carePlan,    \* CompleteActivity: carePlan as it was read
    updated,     \* CompleteActivity: the care plan that updated encodes
    allDone      \* CompleteActivity: allDone

vars == <<pc, options, patientID, err, slot, errh, apiErr, elapsed,
          start, apc, spawned, wg, gpc, now, deadline, dur, slowest, calls,
          fetched, vc, wgvc, det, writers, shown, callerReads, store, menus,
          act, confirm, rt, ids, deleted, issued, environ, client,
          exitStatus, sel, step, callIx, carePlan, updated, allDone>>

\* nothing displayed
NoShow == [kind |-> "none", msg |-> "", args |-> <<>>, total |-> 0,
           elapsed |-> 0]

\* ShowError(e)
ShowError(e) == [NoShow EXCEPT !.kind = "error", !.msg = e.msg]

\* huh.ErrUserAborted
ErrUserAborted == [kind |-> "Abort", msg |-> "user aborted"]

\* an error of the terminal program of a prompt or spinner
ErrTerminal == [kind |-> "Terminal", msg |-> "could not open a new TTY"]

isAbort(e) == e.kind = "Abort"

\* the fetch of a task has not returned
NotFetched ==
    [res |-> <<>>, err |-> NoErr, sdk |-> NoErr, returned |-> FALSE]

\* the locals of an invocation that has not started
FreshInvocation ==
    /\ options = <<>>
    /\ patientID = ""
    /\ err = NoErr
    /\ slot = [v \in ResultVars |-> <<>>]
    /\ errh = [v \in ErrVars |-> NoErr]
    /\ apiErr = NoErr
    /\ elapsed = 0
    /\ start = 0
    /\ apc = "idle"
    /\ spawned = 0
    /\ wg = 0
    /\ gpc = [t \in Tasks |-> "none"]
    /\ deadline = [t \in Tasks |-> 0]
    /\ dur = [t \in Tasks |-> 0]
    /\ slowest = 0
    /\ calls = [t \in Tasks |-> 0]
    /\ fetched = [t \in Tasks |-> NotFetched]
    /\ vc = [t \in Threads |-> InitClock(t)]
    /\ wgvc = ZeroClock
    /\ det = NoAccess
    /\ writers = [v \in SharedVars |-> <<>>]
    /\ shown = NoShow
    /\ callerReads = {}

\* no Store call issued
NoneIssued == [n |-> 0, last |-> "none"]

\* no action is running
NoAction ==
    /\ act = "none"
    /\ confirm = "unset"
    /\ rt = 0
    /\ ids = NoIds
    /\ deleted = 0
    /\ issued = NoneIssued
    /\ step = 0
    /\ callIx = 0
    /\ carePlan = [status |-> "", activity |-> <<>>]
    /\ updated = [status |-> "", activity |-> <<>>]
    /\ allDone = FALSE

\* the process has not ended
Running == 0 - 1

\* main has called MainMenu
Started ==
    /\ environ = DemoEnviron
    /\ client = "set"
    /\ exitStatus = Running
    /\ sel = "none"
    /\ menus = <<"main">>

Init ==
    /\ pc = "menu"
    /\ Started
    /\ now = 0
    /\ FreshInvocation
    /\ NoAction
    /\ store = Seeded(0, 0)

----------------------------------------------------------------------------
(* main and Initialize *)

\* main calls Initialize
Initialize ==
    /\ pc = "boot"
    /\ err' = InitializeResult(environ).err
    /\ client' = IF InitializeResult(environ).client THEN "set" ELSE client
    /\ pc' = "initialized"
    /\ UNCHANGED <<options, patientID, slot, errh, apiErr, elapsed, start,
                  apc, spawned, wg, gpc, now, deadline, dur, slowest, calls, fetched,
                  vc, wgvc, det, writers, shown, callerReads, store, menus, act,
                  confirm, rt, ids, deleted, issued, environ, exitStatus, sel, step,
                  callIx, carePlan, updated, allDone>>

\* main after Initialize: it exits with status 1, or prints the banner
\* and calls MainMenu
Main ==
    /\ pc = "initialized"
    /\ pc' = MainAfter(err)
    /\ IF MainAfter(err) = "exit"
       THEN /\ shown' = [NoShow EXCEPT !.kind = "stderr",
                                         !.msg = "Error: " \o err.msg]
            /\ exitStatus' = 1
            /\ UNCHANGED <<err, menus>>
       ELSE /\ err' = NoErr
            /\ menus' = <<"main">>
            /\ UNCHANGED <<shown, exitStatus>>
    /\ UNCHANGED <<options, patientID, slot, errh, apiErr, elapsed, start,
                  apc, spawned, wg, gpc, now, deadline, dur, slowest, calls, fetched,
                  vc, wgvc, det, writers, callerReads, store, act, confirm, rt, ids,
                  deleted, issued, environ, client, sel, step, callIx, carePlan,
                  updated, allDone>>

----------------------------------------------------------------------------
(* MainMenu *)

\* the innermost menu
Top == menus[Len(menus)]

\* one more Store call
Issue(name) == [n |-> issued.n + 1, last |-> name]

\* the action returns to its menu: its locals, those of the spinner's
\* action and the goroutines' cease to exist, and the clock counts from
\* the menu again
LocalsReset ==
    /\ options' = <<>>
    /\ patientID' = ""
    /\ err' = NoErr
    /\ slot' = [v \in ResultVars |-> <<>>]
    /\ errh' = [v \in ErrVars |-> NoErr]
    /\ apiErr' = NoErr
    /\ elapsed' = 0
    /\ start' = 0
    /\ apc' = "idle"
    /\ spawned' = 0
    /\ wg' = 0
    /\ gpc' = [t \in Tasks |-> "none"]
    /\ deadline' = [t \in Tasks |-> 0]
    /\ dur' = [t \in Tasks |-> 0]
    /\ slowest' = 0
    /\ calls' = [t \in Tasks |-> 0]
    /\ fetched' = [t \in Tasks |-> NotFetched]
    /\ vc' = [t \in Threads |-> InitClock(t)]
    /\ wgvc' = ZeroClock
    /\ det' = NoAccess
    /\ writers' = [v \in SharedVars |-> <<>>]
    /\ callerReads' = {}
    /\ now' = 0
    /\ act' = "none"
    /\ confirm' = "unset"
    /\ rt' = 0
    /\ ids' = NoIds
    /\ deleted' = 0
    /\ issued' = NoneIssued
    /\ step' = 0
    /\ callIx' = 0
    /\ carePlan' = [status |-> "", activity |-> <<>>]
    /\ updated' = [status |-> "", activity |-> <<>>]
    /\ allDone' = FALSE

\* the select of MainMenu returns "summary": PatientSummary is entered
\* and PickPatient starts
MenuSummary ==
    /\ pc = "menu"
    /\ Top = "main"
    /\ sel' = "summary"
    /\ act' = "summary"
    /\ step' = 1
    /\ pc' = "pick"
    /\ shown' = NoShow
    /\ UNCHANGED <<options, patientID, err, slot, errh, apiErr, elapsed,
                  start, apc, spawned, wg, gpc, now, deadline, dur, slowest, calls,
                  fetched, vc, wgvc, det, writers, callerReads, store, menus, confirm,
                  rt, ids, deleted, issued, environ, client, exitStatus, callIx,
                  carePlan, updated, allDone>>

\* the menus that are running after the innermost one returned to its
\* caller's caller
ReturnedTwice(ms) == SubSeq(ms, 1, Len(ms) - 2)

\* the menus that are running after the innermost one returned
Returned(ms) == SubSeq(ms, 1, Len(ms) - 1)

\* the select of MainMenu returns "exit", or is aborted: MainMenu returns
\* and main ends
MenuExit ==
    /\ pc = "menu"
    /\ Top = "main"
    /\ \E c \in {"exit", "abort"} : sel' = c
    /\ menus' = Returned(menus)
    /\ exitStatus' = 0
    /\ pc' = "exit"
    /\ UNCHANGED <<options, patientID, err, slot, errh, apiErr, elapsed,
                  start, apc, spawned, wg, gpc, now, deadline, dur, slowest, calls,
                  fetched, vc, wgvc, det, writers, shown, callerReads, store, act,
                  confirm, rt, ids, deleted, issued, environ, client, step, callIx,
                  carePlan, updated, allDone>>

\* the select of MainMenu fails with an error that is not an abort: the
\* error is shown and the menu is offered again
MenuError ==
    /\ pc = "menu"
    /\ sel' = "error"
    /\ shown' = ShowError(ErrTerminal)
    /\ UNCHANGED <<pc, options, patientID, err, slot, errh, apiErr, elapsed,
                  start, apc, spawned, wg, gpc, now, deadline, dur, slowest, calls,
                  fetched, vc, wgvc, det, writers, callerReads, store, menus, act,
                  confirm, rt, ids, deleted, issued, environ, client, exitStatus, step,
                  callIx, carePlan, updated, allDone>>

----------------------------------------------------------------------------
(* PickPatient, and the assignment of its results in PatientSummary *)

\* PickPatient returns (id, e) to PatientSummary
PickReturns(id, e) ==
    /\ patientID' = id
    /\ err' = e
    /\ options' = <<>>
    /\ det' = DoWrite(det, vc["main"], "main", "patientID")
    /\ writers' = [writers EXCEPT !["patientID"] = Append(@, "main")]
    /\ pc' = "picked"

\* the message PickPatient prints when the Store holds no patient
NoPatientsFound ==
    [NoShow EXCEPT !.kind = "info",
                   !.msg = "No patients found. Try seeding sample data first."]

\* the spinner and fetchAllPatients of PickPatient
PickLoad ==
    /\ pc = "pick"
    /\ issued' = Issue("fetchAllPatients")
    /\ \/ /\ PickReturns("", ErrTerminal)
          /\ UNCHANGED shown
       \/ /\ \E e \in SdkErrors :
                PickReturns("", Wrap("searching patients: ", e))
          /\ UNCHANGED shown
       \/ /\ PickReturns("", NoErr)
          /\ shown' = NoPatientsFound
       \/ /\ \E l \in PatientLists \ {<<>>} : options' = l
          /\ pc' = "pickSelect"
          /\ UNCHANGED <<patientID, err, det, writers, shown>>
    /\ UNCHANGED <<slot, errh, apiErr, elapsed, start, apc, spawned, wg,
                  gpc, now, deadline, dur, slowest, calls, fetched, vc, wgvc,
                  callerReads, store, menus, act, confirm, rt, ids, deleted, environ,
                  client, exitStatus, sel, step, callIx, carePlan, updated, allDone>>

\* the patient select of PickPatient
PickSelect ==
    /\ pc = "pickSelect"
    /\ \/ \E i \in 1..Len(options) : PickReturns(options[i], NoErr)
       \/ \E e \in {ErrUserAborted, ErrTerminal} : PickReturns("", e)
    /\ UNCHANGED <<slot, errh, apiErr, elapsed, start, apc, spawned, wg,
                  gpc, now, deadline, dur, slowest, calls, fetched, vc, wgvc, shown,
                  callerReads, store, menus, act, confirm, rt, ids, deleted, issued,
                  environ, client, exitStatus, sel, step, callIx, carePlan, updated,
                  allDone>>

----------------------------------------------------------------------------
(* PatientSummary: the caller *)

\* no patient was picked: the error, if it is not an abort, is shown
\* before PatientSummary returns
SummaryNoPatient ==
    /\ pc = "picked"
    /\ err # NoErr \/ patientID = ""
    /\ IF err # NoErr /\ ~isAbort(err)
       THEN /\ shown' = ShowError(err)
            /\ pc' = "pressEnter"
            /\ UNCHANGED <<options, patientID, err, slot, errh, apiErr,
                           elapsed, start, apc, spawned, wg, gpc, deadline,
                           dur, slowest, calls, fetched, vc, wgvc, det,
                           writers, callerReads, now, act, confirm, rt,
                           ids, deleted, issued, step, callIx, carePlan,
                           updated, allDone>>
       ELSE /\ pc' = "menu"
            /\ LocalsReset
            /\ UNCHANGED shown
    /\ UNCHANGED <<store, menus, environ, client, exitStatus, sel>>

\* the declarations of the result variables, apiErr and elapsed
DeclAccesses ==
    <<<<"w", "patient">>, <<"w", "observations">>, <<"w", "conditions">>,
      <<"w", "plans">>, <<"w", "apiErr">>, <<"w", "elapsed">>>>

\* a patient was picked: the locals are declared and the spinner's Run
\* starts the action
SummaryRun ==
    /\ pc = "picked"
    /\ err = NoErr /\ patientID # ""
    /\ det' = DoAccesses(det, vc["main"], "main", DeclAccesses)
    /\ writers' = LogWrites(writers, "main", DeclAccesses)
    /\ vc' = [vc EXCEPT !["action"] = Join(@, vc["main"]),
                        !["main"] = Advance(@, "main")]
    /\ apc' = "start"
    /\ pc' = "run"
    /\ UNCHANGED <<options, patientID, err, slot, errh, apiErr, elapsed,
                  start, spawned, wg, gpc, now, deadline, dur, slowest, calls, fetched,
                  wgvc, shown, callerReads, store, menus, act, confirm, rt, ids,
                  deleted, issued, environ, client, exitStatus, sel, step, callIx,
                  carePlan, updated, allDone>>

\* Run returns after the action has returned, with nil or with an error
\* of the spinner's terminal program
RunReturn ==
    /\ pc = "run"
    /\ apc = "finished"
    /\ \E e \in {NoErr, ErrTerminal} : err' = e
    /\ vc' = [vc EXCEPT !["main"] = Join(@, vc["action"])]
    /\ pc' = "afterRun"
    /\ UNCHANGED <<options, patientID, slot, errh, apiErr, elapsed, start,
                  apc, spawned, wg, gpc, now, deadline, dur, slowest, calls, fetched,
                  wgvc, det, writers, shown, callerReads, store, menus, act, confirm,
                  rt, ids, deleted, issued, environ, client, exitStatus, sel, step,
                  callIx, carePlan, updated, allDone>>

\* the caller not looking at apiErr
AfterRunBranchNoApi(e, api) == IF e # NoErr THEN "err" ELSE "print"

\* what the caller does after Run: show err, show apiErr, or print
AfterRunBranch(e, api) ==
    IF e # NoErr THEN "err" ELSE IF api # NoErr THEN "apiErr" ELSE "print"

\* conditions and plans passed in each other's place
PrintArgsSwapped(s) ==
    <<s["patient"], s["observations"], s["plans"], s["conditions"]>>

\* the arguments of fhir.PrintSummary
PrintArgs(s) ==
    <<s["patient"], s["observations"], s["conditions"], s["plans"]>>

\* the variables the caller reads on each branch
BranchReads(b) ==
    CASE b = "err" -> <<>>
      [] b = "apiErr" -> <<<<"r", "apiErr">>>>
      [] b = "print" -> <<<<"r", "apiErr">>, <<"r", "patient">>,
                          <<"r", "observations">>, <<"r", "conditions">>,
                          <<"r", "plans">>, <<"r", "elapsed">>>>

\* the caller after Run: an error is shown, or the summary and the
\* timing line are printed
AfterRun ==
    /\ pc = "afterRun"
    /\ LET b == AfterRunBranch(err, apiErr) IN
         /\ shown' =
              CASE b = "err" -> ShowError(err)
                [] b = "apiErr" -> ShowError(apiErr)
                [] b = "print" ->
                     [kind |-> "summary", msg |-> "",
                      args |-> PrintArgs(slot),
                      total |-> Len(slot["observations"])
                                + Len(slot["conditions"])
                                + Len(slot["plans"]) + 1,
                      elapsed |-> elapsed]
         /\ det' = DoAccesses(det, vc["main"], "main", BranchReads(b))
         /\ callerReads' = {BranchReads(b)[i][2] :
                              i \in 1..Len(BranchReads(b))}
    /\ pc' = "pressEnter"
    /\ UNCHANGED <<options, patientID, err, slot, errh, apiErr, elapsed,
                  start, apc, spawned, wg, gpc, now, deadline, dur, slowest, calls,
                  fetched, vc, wgvc, writers, store, menus, act, confirm, rt, ids,
                  deleted, issued, environ, client, exitStatus, sel, step, callIx,
                  carePlan, updated, allDone>>

\* the process ends after an error was shown
PressEnterFatal ==
    /\ pc = "pressEnter"
    /\ pc' = IF shown.kind = "error" THEN "exit" ELSE "menu"
    /\ shown' = NoShow
    /\ LocalsReset
    /\ UNCHANGED <<store, menus, environ, client, exitStatus, sel>>

\* PressEnter returns and PatientSummary returns to MainMenu
PressEnter ==
    /\ pc = "pressEnter"
    /\ pc' = "menu"
    /\ shown' = NoShow
    /\ LocalsReset
    /\ UNCHANGED <<store, menus, environ, client, exitStatus, sel>>

----------------------------------------------------------------------------
(* PatientSummary: the action of the spinner *)

\* the declarations of the four error holders
ErrDeclAccesses ==
    <<<<"w", "patientErr">>, <<"w", "observationsErr">>,
      <<"w", "conditionsErr">>, <<"w", "plansErr">>>>

\* start := time.Now(), the declarations, wg.Add
ActStart ==
    /\ apc = "start"
    /\ start' = now
    /\ wg' = wg + WgAdd
    /\ det' = DoAccesses(det, vc["action"], "action", ErrDeclAccesses)
    /\ writers' = LogWrites(writers, "action", ErrDeclAccesses)
    /\ apc' = "spawn"
    /\ UNCHANGED <<pc, options, patientID, err, slot, errh, apiErr, elapsed,
                  spawned, gpc, now, deadline, dur, slowest, calls, fetched, vc, wgvc,
                  shown, callerReads, store, menus, act, confirm, rt, ids, deleted,
                  issued, environ, client, exitStatus, sel, step, callIx, carePlan,
                  updated, allDone>>

\* the next go statement
ActGo ==
    /\ apc = "spawn"
    /\ spawned < Len(GoOrder)
    /\ LET t == GoOrder[spawned + 1] IN
         /\ gpc' = [gpc EXCEPT ![t] = "ready"]
         /\ vc' = [vc EXCEPT ![t] = Join(@, vc["action"]),
                             !["action"] = Advance(@, "action")]
    /\ spawned' = spawned + 1
    /\ apc' = IF spawned + 1 = Len(GoOrder) THEN "wait" ELSE "spawn"
    /\ UNCHANGED <<pc, options, patientID, err, slot, errh, apiErr, elapsed,
                  start, wg, now, deadline, dur, slowest, calls, fetched, wgvc, det,
                  writers, shown, callerReads, store, menus, act, confirm, rt, ids,
                  deleted, issued, environ, client, exitStatus, sel, step, callIx,
                  carePlan, updated, allDone>>

\* wg.Wait returns
ActWait ==
    /\ apc = "wait"
    /\ wg = 0
    /\ vc' = [vc EXCEPT !["action"] = Join(@, wgvc)]
    /\ apc' = "elapsed"
    /\ UNCHANGED <<pc, options, patientID, err, slot, errh, apiErr, elapsed,
                  start, spawned, wg, gpc, now, deadline, dur, slowest, calls, fetched,
                  wgvc, det, writers, shown, callerReads, store, menus, act, confirm,
                  rt, ids, deleted, issued, environ, client, exitStatus, sel, step,
                  callIx, carePlan, updated, allDone>>

\* elapsed = time.Since(start)
ActElapsed ==
    /\ apc = "elapsed"
    /\ elapsed' = Since(start, now)
    /\ det' = DoWrite(det, vc["action"], "action", "elapsed")
    /\ writers' = [writers EXCEPT !["elapsed"] = Append(@, "action")]
    /\ apc' = "select"
    /\ UNCHANGED <<pc, options, patientID, err, slot, errh, apiErr, start,
                  spawned, wg, gpc, now, deadline, dur, slowest, calls, fetched, vc,
                  wgvc, shown, callerReads, store, menus, act, confirm, rt, ids,
                  deleted, issued, environ, client, exitStatus, sel, step, callIx,
                  carePlan, updated, allDone>>

\* the accesses of the error-selection code
SelectAccesses(e) ==
    [i \in 1..Len(SelectReads(e)) |-> <<"r", SelectReads(e)[i]>>]
    \o (IF IsNotFound(e["patientErr"]) THEN <<<<"r", "patientID">>>>
        ELSE <<>>)
    \o (IF SelectError(e, "") # NoErr THEN <<<<"w", "apiErr">>>> ELSE <<>>)

\* the error selection; the action returns
ActSelect ==
    /\ apc = "select"
    /\ apiErr' = SelectError(errh, patientID)
    /\ det' = DoAccesses(det, vc["action"], "action", SelectAccesses(errh))
    /\ writers' = LogWrites(writers, "action", SelectAccesses(errh))
    /\ apc' = "finished"
    /\ UNCHANGED <<pc, options, patientID, err, slot, errh, elapsed, start,
                  spawned, wg, gpc, now, deadline, dur, slowest, calls, fetched, vc,
                  wgvc, shown, callerReads, store, menus, act, confirm, rt, ids,
                  deleted, issued, environ, client, exitStatus, sel, step, callIx,
                  carePlan, updated, allDone>>

----------------------------------------------------------------------------
(* PatientSummary: the goroutines *)

\* what the goroutine of task t assigns when the Store returned r: the
\* value of its result variable, the value of its error holder, and
\* whether the error holder is assigned
Assigned(t, r) ==
    IF t = "Patient"
    THEN [res |-> r.raw, err |-> r.err, setErr |-> r.err # NoErr]
    ELSE [res |-> searchByPatient(t, r).res,
          err |-> searchByPatient(t, r).err, setErr |-> TRUE]

\* a goroutine that calls the Store again after a failure
AfterCallRetry(e) == IF e # NoErr THEN "ready" ELSE "done"

\* the position of a goroutine after its fetch has returned with error e:
\* the closure returns
AfterCall(e) == "done"

\* the larger of two durations
Longer(a, b) == IF a > b THEN a ELSE b

\* the goroutine of task t starts its Store call
GoCall(t) ==
    /\ gpc[t] = "ready"
    /\ gpc' = [gpc EXCEPT ![t] = "calling"]
    /\ calls' = [calls EXCEPT ![t] = @ + 1]
    /\ \E d \in 1..MaxDur :
         /\ dur' = [dur EXCEPT ![t] = d]
         /\ deadline' = [deadline EXCEPT ![t] = now + d]
    /\ det' = DoRead(det, vc[t], t, "patientID")
    /\ UNCHANGED <<pc, options, patientID, err, slot, errh, apiErr, elapsed,
                  start, apc, spawned, wg, now, slowest, fetched, vc, wgvc, writers,
                  shown, callerReads, store, menus, act, confirm, rt, ids, deleted,
                  issued, environ, client, exitStatus, sel, step, callIx, carePlan,
                  updated, allDone>>

\* the deadline of a Store call that never returns
Never == 0 - 1

\* the goroutine of task t starts a Store call that never returns
GoCallHang(t) ==
    /\ gpc[t] = "ready"
    /\ gpc' = [gpc EXCEPT ![t] = "calling"]
    /\ calls' = [calls EXCEPT ![t] = @ + 1]
    /\ deadline' = [deadline EXCEPT ![t] = Never]
    /\ det' = DoRead(det, vc[t], t, "patientID")
    /\ UNCHANGED <<pc, options, patientID, err, slot, errh, apiErr, elapsed,
                  start, apc, spawned, wg, now, dur, slowest, fetched, vc, wgvc,
                  writers, shown, callerReads, store, menus, act, confirm, rt, ids,
                  deleted, issued, environ, client, exitStatus, sel, step, callIx,
                  carePlan, updated, allDone>>

\* the Store call of task t returns, the goroutine assigns the result and
\* returns, and its deferred wg.Done runs
GoReturn(t) ==
    /\ gpc[t] = "calling"
    /\ now = deadline[t]
    /\ \E r \in Responses(t, patientID) :
         LET a == Assigned(t, r)
             acc == <<<<"w", ResultVarOf(t)>>>>
                    \o (IF a.setErr THEN <<<<"w", ErrVarOf(t)>>>> ELSE <<>>)
         IN /\ fetched' = [fetched EXCEPT ![t] =
                             [res |-> a.res, err |-> a.err, sdk |-> r.err,
                              returned |-> TRUE]]
            /\ slot' = [slot EXCEPT ![ResultVarOf(t)] = a.res]
            /\ errh' = IF a.setErr
                       THEN [errh EXCEPT ![ErrVarOf(t)] = a.err]
                       ELSE errh
            /\ det' = DoAccesses(det, vc[t], t, acc)
            /\ writers' = LogWrites(writers, t, acc)
            /\ gpc' = [gpc EXCEPT ![t] = AfterCall(a.err)]
            /\ IF AfterCall(a.err) = "done"
               THEN /\ wg' = wg - 1
                    /\ wgvc' = Join(wgvc, vc[t])
               ELSE UNCHANGED <<wg, wgvc>>
    /\ slowest' = Longer(slowest, dur[t])
    /\ dur' = [dur EXCEPT ![t] = 0]
    /\ deadline' = [deadline EXCEPT ![t] = 0]
    /\ UNCHANGED <<pc, options, patientID, err, apiErr, elapsed, start, apc,
                  spawned, now, calls, vc, shown, callerReads, store, menus, act,
                  confirm, rt, ids, deleted, issued, environ, client, exitStatus, sel,
                  step, callIx, carePlan, updated, allDone>>

----------------------------------------------------------------------------
(* Time *)

\* time passes while the action is blocked in wg.Wait and every running
\* goroutine is inside a Store call that has not returned yet; the clock
\* is followed as long as a call is due to return
TickWait ==
    /\ apc = "wait"
    /\ wg # 0
    /\ \E t \in Tasks : gpc[t] = "calling" /\ deadline[t] # Never
    /\ \A t \in Tasks :
         /\ gpc[t] \in {"calling", "done"}
         /\ gpc[t] = "calling" => (deadline[t] = Never \/ now < deadline[t])
    /\ now' = now + 1
    /\ UNCHANGED <<pc, options, patientID, err, slot, errh, apiErr, elapsed,
                  start, apc, spawned, wg, gpc, deadline, dur, slowest, calls, fetched,
                  vc, wgvc, det, writers, shown, callerReads, store, menus, act,
                  confirm, rt, ids, deleted, issued, environ, client, exitStatus, sel,
                  step, callIx, carePlan, updated, allDone>>

\* time passes while the menu waits for the user
TickIdle ==
    /\ pc = "menu"
    /\ now < MaxIdle
    /\ now' = now + 1
    /\ UNCHANGED <<pc, options, patientID, err, slot, errh, apiErr, elapsed,
                  start, apc, spawned, wg, gpc, deadline, dur, slowest, calls, fetched,
                  vc, wgvc, det, writers, shown, callerReads, store, menus, act,
                  confirm, rt, ids, deleted, issued, environ, client, exitStatus, sel,
                  step, callIx, carePlan, updated, allDone>>

----------------------------------------------------------------------------
(* DeleteSeedData *)

\* text printed by the action, with the number it reports
Printed(text, n) ==
    [kind |-> "text", msg |-> text, args |-> <<>>, total |-> n, elapsed |-> 0]

\* the outcomes of a confirm prompt: yes, no, aborted, failed
ConfirmOutcomes ==
    { [err |-> NoErr, answer |-> TRUE], [err |-> NoErr, answer |-> FALSE],
      [err |-> ErrUserAborted, answer |-> FALSE],
      [err |-> ErrTerminal, answer |-> FALSE] }

\* the select of MainMenu returns "unseed": DeleteSeedData is entered
MenuUnseed ==
    /\ pc = "menu"
    /\ Top = "main"
    /\ sel' = "unseed"
    /\ act' = "unseed"
    /\ pc' = "confirm"
    /\ shown' = NoShow
    /\ UNCHANGED <<options, patientID, err, slot, errh, apiErr, elapsed,
                  start, apc, spawned, wg, gpc, now, deadline, dur, slowest, calls,
                  fetched, vc, wgvc, det, writers, callerReads, store, menus, confirm,
                  rt, ids, deleted, issued, environ, client, exitStatus, step, callIx,
                  carePlan, updated, allDone>>

\* the confirm prompt of DeleteSeedData lets the action go on
UnseedConfirmed ==
    /\ pc = "confirm"
    /\ act = "unseed"
    /\ \E o \in ConfirmOutcomes :
         /\ Proceeds(o.err, o.answer)
         /\ confirm' = IF o.answer THEN "yes" ELSE "no"
    /\ rt' = 1
    /\ pc' = "unseedSearch"
    /\ UNCHANGED <<options, patientID, err, slot, errh, apiErr, elapsed,
                  start, apc, spawned, wg, gpc, now, deadline, dur, slowest, calls,
                  fetched, vc, wgvc, det, writers, shown, callerReads, store, menus,
                  act, ids, deleted, issued, environ, client, exitStatus, sel, step,
                  callIx, carePlan, updated, allDone>>

\* the confirm prompt of DeleteSeedData ends the action
UnseedDeclined ==
    /\ pc = "confirm"
    /\ act = "unseed"
    /\ \E o \in ConfirmOutcomes : ~Proceeds(o.err, o.answer)
    /\ pc' = "menu"
    /\ LocalsReset
    /\ UNCHANGED <<shown, store, menus, environ, client, exitStatus, sel>>

\* the position of the action after the ids of resourceTypes[i] are done
AfterType(i) ==
    IF i < Len(resourceTypes)
    THEN [rt |-> i + 1, pc |-> "unseedSearch"]
    ELSE [rt |-> i, pc |-> "unseedReturn"]

\* searchByTag for the next resource type returns on the response resp
UnseedSearchOn(resp) ==
    LET r == searchByTag(resourceTypes[rt], resp)
        empty == r.ids = NoIds
    IN  /\ apiErr' = r.err
        /\ ids' = r.ids
        /\ rt' = IF r.err = NoErr /\ empty THEN AfterType(rt).rt ELSE rt
        /\ pc' = IF r.err # NoErr THEN "unseedReturn"
                 ELSE IF empty THEN AfterType(rt).pc
                 ELSE "unseedDelete"
        /\ issued' = Issue("searchByTag")

\* searchByTag for the next resource type returns
UnseedSearch ==
    /\ pc = "unseedSearch"
    /\ \E resp \in TagSearchResponses(store, resourceTypes[rt]) :
         UnseedSearchOn(resp)
    /\ UNCHANGED <<options, patientID, err, slot, errh, elapsed, start, apc,
                  spawned, wg, gpc, now, deadline, dur, slowest, calls, fetched, vc,
                  wgvc, det, writers, shown, callerReads, store, menus, act, confirm,
                  deleted, environ, client, exitStatus, sel, step, callIx, carePlan,
                  updated, allDone>>

\* the class of the next id of a list
NextId(l) == IF l.seed > 0 THEN "seed" ELSE "own"

\* DeleteResource for the next id returns e
UnseedDeleteOn(e) ==
    LET type == resourceTypes[rt]
        id == NextId(ids)
        rest == [ids EXCEPT ![id] = @ - 1]
    IN  /\ IF e # NoErr
           THEN /\ apiErr' =
                     Wrap("deleting " \o type \o "/" \o id \o ": ", e)
                /\ pc' = "unseedReturn"
                /\ UNCHANGED <<deleted, ids, rt>>
           ELSE /\ deleted' = deleted + 1
                /\ ids' = rest
                /\ rt' = IF rest = NoIds THEN AfterType(rt).rt ELSE rt
                /\ pc' = IF rest = NoIds THEN AfterType(rt).pc
                         ELSE "unseedDelete"
                /\ UNCHANGED apiErr
        /\ issued' = Issue("DeleteResource")

\* DeleteResource for the next id returns: the Store has deleted the
\* resource unless it answers with an error
UnseedDelete ==
    /\ pc = "unseedDelete"
    /\ \E e \in {NoErr} \cup SdkErrors :
         /\ UnseedDeleteOn(e)
         /\ store' = IF e # NoErr THEN store
                     ELSE [store EXCEPT
                             ![resourceTypes[rt]][NextId(ids)] = @ - 1]
    /\ UNCHANGED <<options, patientID, err, slot, errh, elapsed, start, apc,
                  spawned, wg, gpc, now, deadline, dur, slowest, calls, fetched, vc,
                  wgvc, det, writers, shown, callerReads, menus, act, confirm, environ,
                  client, exitStatus, sel, step, callIx, carePlan, updated, allDone>>

\* the spinner's Run returns and DeleteSeedData reports
UnseedReturn ==
    /\ pc = "unseedReturn"
    /\ \E e \in {NoErr, ErrTerminal} :
         /\ err' = e
         /\ shown' = IF e # NoErr THEN ShowError(e)
                     ELSE IF apiErr # NoErr THEN ShowError(apiErr)
                     ELSE IF deleted = 0
                     THEN Printed("No seed data found.", 0)
                     ELSE Printed("Deleted %d seed resources.", deleted)
    /\ pc' = "pressEnter"
    /\ UNCHANGED <<options, patientID, slot, errh, apiErr, elapsed, start,
                  apc, spawned, wg, gpc, now, deadline, dur, slowest, calls, fetched,
                  vc, wgvc, det, writers, callerReads, store, menus, act, confirm, rt,
                  ids, deleted, issued, environ, client, exitStatus, sel, step, callIx,
                  carePlan, updated, allDone>>

----------------------------------------------------------------------------
(* The menus below MainMenu *)

\* the options of the select of every menu
MenuOptions ==
    [main |-> {"seed", "summary", "dashboard", "manage", "unseed", "exit"},
     manage |-> {"patient", "clinical", "health", "back"},
     patient |-> {"register", "list", "view", "update", "delete", "back"},
     clinical |-> {"vitals-add", "vitals-view", "diagnosis-add",
                   "diagnosis-view", "back"},
     health |-> {"create", "add", "complete", "status", "back"}]

\* the choices that call a menu: manageMenu, patientMenu, clinicalMenu,
\* healthPlanMenu
Submenus == {"manage", "patient", "clinical", "health"}

\* the select of a menu returns the choice of a menu, which is called
MenuEnter ==
    /\ pc = "menu"
    /\ \E c \in MenuOptions[Top] \cap Submenus :
         /\ sel' = c
         /\ menus' = Append(menus, c)
    /\ UNCHANGED <<pc, options, patientID, err, slot, errh, apiErr, elapsed,
                  start, apc, spawned, wg, gpc, now, deadline, dur, slowest, calls,
                  fetched, vc, wgvc, det, writers, shown, callerReads, store, act,
                  confirm, rt, ids, deleted, issued, environ, client, exitStatus, step,
                  callIx, carePlan, updated, allDone>>

\* the select of a menu below MainMenu returns "back", or is aborted: the
\* menu returns
MenuBack ==
    /\ pc = "menu"
    /\ Top # "main"
    /\ \E c \in (MenuOptions[Top] \cap {"back"}) \cup {"abort"} : sel' = c
    /\ menus' = Returned(menus)
    /\ UNCHANGED <<pc, options, patientID, err, slot, errh, apiErr, elapsed,
                  start, apc, spawned, wg, gpc, now, deadline, dur, slowest, calls,
                  fetched, vc, wgvc, det, writers, shown, callerReads, store, act,
                  confirm, rt, ids, deleted, issued, environ, client, exitStatus, step,
                  callIx, carePlan, updated, allDone>>

----------------------------------------------------------------------------
(* The actions of the menus.  An action is a sequence of stages: the pick  *)
(* of a patient, the pick of a care plan, a prompt, a confirm prompt, a    *)
(* spinner that makes Store calls, the name lookups of the dashboard.  The *)
(* Store answers a call with an error or without one.                      *)

Call(name, label) == [name |-> name, label |-> label]

Stage(kind, press, cs, all, stops) ==
    [kind |-> kind, press |-> press, calls |-> cs, all |-> all,
     stops |-> stops]

\* PickPatient and the check of its results; press: PressEnter is called
\* when no patient was picked
Pick(press) == Stage("pick", press, <<>>, FALSE, {})

\* PickCarePlan and the check of its results
Plan == Stage("plan", FALSE, <<>>, FALSE, {})

\* a form, input or select; press: PressEnter is called after its error
\* was shown; stops: what is shown when the input ends the action
Prompt(press, stops) == Stage("prompt", press, <<>>, FALSE, stops)

\* a confirm prompt
Confirm == Stage("confirm", FALSE, <<>>, FALSE, {})

\* a spinner whose action makes the calls in order and returns at the
\* first error; stops: what is shown when the action ends after it
Run(cs, stops) == Stage("run", TRUE, cs, FALSE, stops)

\* a spinner whose action makes all the calls
RunAll(cs, stops) == Stage("run", TRUE, cs, TRUE, stops)

SeedData ==
    << Confirm,
       Run(<<Call("ProcessBundle", "processing bundle: ")>>,
           {Printed("Seeded %d resources (5 patients with vitals, labs, conditions, and care plans)", 0)}) >>

PatientSummary ==
    << Pick(FALSE),
       RunAll(<<Call("ReadResource", "reading patient: "),
                Call("searchByPatient", "loading observations: "),
                Call("searchByPatient", "loading conditions: "),
                Call("searchCarePlans", "loading care plans: ")>>,
              {Printed("PrintPatientSummary", 0)}) >>

ClinicDashboard ==
    << Run(<<Call("SearchResources", "searching care plans: ")>>,
           {Printed("No active health plans found.", 0)}),
       Stage("names", TRUE, <<>>, FALSE,
             {Printed("PrintClinicDashboard", 0)}) >>

RegisterPatient ==
    << Prompt(FALSE, {}),
       Run(<<Call("CreateResource", "creating patient: ")>>,
           {Printed("Created patient %s %s (ID: %s)", 0)}) >>

ListPatients ==
    << Run(<<Call("fetchAllPatients", "searching patients: ")>>,
           {Printed("No patients found.", 0),
            Printed("PrintPatientList", 0)}) >>

ViewPatient ==
    << Pick(TRUE),
       Run(<<Call("ReadResource", "reading patient: ")>>,
           {Printed("PrintPatient", 0)}) >>

UpdateContact ==
    << Pick(TRUE),
       Prompt(FALSE, {Printed("No changes provided.", 0)}),
       Run(<<Call("ReadResource", "reading patient: "),
             Call("UpdateResource", "updating patient: ")>>,
           {Printed("Updated patient %s", 0)}) >>

DeletePatient ==
    << Pick(TRUE),
       Confirm,
       Run(<<Call("DeleteResource", "deleting patient: ")>>,
           {Printed("Deleted patient %s", 0)}) >>

RecordVitals ==
    << Pick(FALSE),
       Prompt(TRUE, {}),
       Prompt(TRUE,
              {ShowError(Errorf("systolic and diastolic must be numbers")),
               ShowError(Errorf("weight must be a number")),
               ShowError(Errorf("heart rate must be a number"))}),
       Run(<<Call("CreateResource", "creating observation: ")>>,
           {Printed("Recorded %s observation (ID: %s)", 0)}) >>

ViewVitals ==
    << Pick(FALSE),
       Run(<<Call("searchByPatient", "searching Observation: ")>>,
           {Printed("No observations found.", 0),
            Printed("PrintObservationList", 0)}) >>

RecordDiagnosis ==
    << Pick(FALSE),
       Prompt(TRUE, {}),
       Run(<<Call("CreateResource", "creating condition: ")>>,
           {Printed("Recorded condition %s - %s (ID: %s)", 0)}) >>

ViewDiagnoses ==
    << Pick(FALSE),
       Run(<<Call("searchByPatient", "searching Condition: ")>>,
           {Printed("No conditions found.", 0),
            Printed("PrintConditionList", 0)}) >>

CreatePlan ==
    << Pick(FALSE),
       Prompt(TRUE, {}),
       Run(<<Call("CreateResource", "creating care plan: ")>>,
           {Printed("Created health plan %q (ID: %s)", 0)}) >>

AddActivity ==
    << Pick(FALSE),
       Plan,
       Prompt(TRUE, {}),
       Run(<<Call("ReadResource", "reading care plan: "),
             Call("UpdateResource", "updating care plan: ")>>,
           {Printed("Added activity: %s", 0)}) >>

CompleteActivity ==
    << Pick(FALSE),
       Plan,
       Run(<<Call("ReadResource", "reading care plan: ")>>,
           {ShowError(Wrap("parsing care plan: ", UnmarshalErr)),
            Printed("No activities in this care plan.", 0),
            Printed("All activities are already completed.", 0)}),
       Prompt(TRUE, {}),
       Run(<<Call("UpdateResource", "updating care plan: ")>>,
           {Printed("Completed activity: %s", 0)}) >>

ViewPlanStatus ==
    << Pick(FALSE),
       Run(<<Call("searchCarePlans", "searching care plans: ")>>,
           {Printed("No active health plans found.", 0),
            Printed("PrintCarePlanList", 0)}) >>

\* the function every choice of a menu calls, other than DeleteSeedData
Script(c) ==
    CASE c = "seed" -> SeedData
      [] c = "summary" -> PatientSummary
      [] c = "dashboard" -> ClinicDashboard
      [] c = "register" -> RegisterPatient
      [] c = "list" -> ListPatients
      [] c = "view" -> ViewPatient
      [] c = "update" -> UpdateContact
      [] c = "delete" -> DeletePatient
      [] c = "vitals-add" -> RecordVitals
      [] c = "vitals-view" -> ViewVitals
      [] c = "diagnosis-add" -> RecordDiagnosis
      [] c = "diagnosis-view" -> ViewDiagnoses
      [] c = "create" -> CreatePlan
      [] c = "add" -> AddActivity
      [] c = "complete" -> CompleteActivity
      [] c = "status" -> ViewPlanStatus

\* the choices MenuAct dispatches
Dispatched ==
    {"seed", "dashboard", "register", "list", "view", "update", "delete",
     "vitals-add", "vitals-view", "diagnosis-add", "diagnosis-view",
     "create", "add", "complete", "status"}

\* the position at the start of a stage
StagePc(kind) ==
    CASE kind = "pick" -> "pick"
      [] kind = "plan" -> "stagePlan"
      [] kind = "prompt" -> "stagePrompt"
      [] kind = "confirm" -> "stageConfirm"
      [] kind = "run" -> "stageRun"
      [] kind = "names" -> "stageNames"

\* the stage the action is in, and whether it is its last one
Cur == Script(act)[step]
Last == step = Len(Script(act))

\* the action goes on with its next stage
NextStage ==
    /\ step' = step + 1
    /\ callIx' = 0
    /\ pc' = StagePc(Script(act)[step + 1].kind)

\* the select of a menu returns the choice of an action, which is called
MenuAct ==
    /\ pc = "menu"
    /\ \E c \in MenuOptions[Top] \cap Dispatched :
         /\ sel' = c
         /\ act' = c
         /\ pc' = StagePc(Script(c)[1].kind)
    /\ step' = 1
    /\ shown' = NoShow
    /\ UNCHANGED <<options, patientID, err, slot, errh, apiErr, elapsed,
                  start, apc, spawned, wg, gpc, now, deadline, dur, slowest, calls,
                  fetched, vc, wgvc, det, writers, callerReads, store, menus, confirm,
                  rt, ids, deleted, issued, environ, client, exitStatus, callIx,
                  carePlan, updated, allDone>>

\* a check of the picked patient that never finds it missing
NoPatientNever(id) == FALSE

\* patientID == ""
NoPatient(id) == id = ""

\* after PickPatient: the prompt was aborted, or no patient was picked
\* and the action returns at once
PickedReturn ==
    /\ pc = "picked"
    /\ \/ isAbort(err)
       \/ err = NoErr /\ NoPatient(patientID) /\ ~Cur.press
    /\ pc' = "menu"
    /\ LocalsReset
    /\ UNCHANGED <<shown, store, menus, environ, client, exitStatus, sel>>

\* after PickPatient: its error is shown, or no patient was picked, and
\* PressEnter is called
PickedPress ==
    /\ pc = "picked"
    /\ \/ err # NoErr /\ ~isAbort(err)
       \/ err = NoErr /\ NoPatient(patientID) /\ Cur.press
    /\ shown' = IF err # NoErr THEN ShowError(err) ELSE shown
    /\ pc' = "pressEnter"
    /\ UNCHANGED <<options, patientID, err, slot, errh, apiErr, elapsed,
                  start, apc, spawned, wg, gpc, now, deadline, dur, slowest, calls,
                  fetched, vc, wgvc, det, writers, callerReads, store, menus, act,
                  confirm, rt, ids, deleted, issued, environ, client, exitStatus, sel,
                  step, callIx, carePlan, updated, allDone>>

\* after PickPatient: a patient was picked
PickedNext ==
    /\ pc = "picked"
    /\ err = NoErr
    /\ ~NoPatient(patientID)
    /\ NextStage
    /\ UNCHANGED <<options, patientID, err, slot, errh, apiErr, elapsed,
                  start, apc, spawned, wg, gpc, now, deadline, dur, slowest, calls,
                  fetched, vc, wgvc, det, writers, shown, callerReads, store, menus,
                  act, confirm, rt, ids, deleted, issued, environ, client, exitStatus,
                  sel, carePlan, updated, allDone>>

\* the spinner and searchCarePlans of PickCarePlan, which returns an
\* error or the active plans of the patient; without a plan PickCarePlan
\* prints a message
PlanLoad ==
    /\ pc = "stagePlan"
    /\ issued' = Issue("searchCarePlans")
    /\ \/ /\ \E e \in {ErrTerminal} \cup
                       {Wrap("searching care plans: ", x) : x \in SdkErrors} :
                err' = e
          /\ UNCHANGED <<options, shown>>
       \/ /\ \E l \in {<<>>, <<"cp1">>, <<"cp1", "cp2">>} :
                /\ options' = l
                /\ shown' =
                     IF l = <<>>
                     THEN Printed("No active care plans found for this patient.", 0)
                     ELSE shown
          /\ UNCHANGED err
    /\ pc' = "stagePlanned"
    /\ UNCHANGED <<patientID, slot, errh, apiErr, elapsed, start, apc,
                  spawned, wg, gpc, now, deadline, dur, slowest, calls, fetched, vc,
                  wgvc, det, writers, callerReads, store, menus, act, confirm, rt, ids,
                  deleted, environ, client, exitStatus, sel, step, callIx, carePlan,
                  updated, allDone>>

\* after PickCarePlan: there is no plan, or the select was aborted
PlanReturn ==
    /\ pc = "stagePlanned"
    /\ err = NoErr
    /\ pc' = "menu"
    /\ LocalsReset
    /\ UNCHANGED <<shown, store, menus, environ, client, exitStatus, sel>>

\* after PickCarePlan: its error is shown and PressEnter is called
PlanPress ==
    /\ pc = "stagePlanned"
    /\ err # NoErr \/ options # <<>>
    /\ shown' = IF err # NoErr THEN ShowError(err) ELSE ShowError(ErrTerminal)
    /\ pc' = "pressEnter"
    /\ UNCHANGED <<options, patientID, err, slot, errh, apiErr, elapsed,
                  start, apc, spawned, wg, gpc, now, deadline, dur, slowest, calls,
                  fetched, vc, wgvc, det, writers, callerReads, store, menus, act,
                  confirm, rt, ids, deleted, issued, environ, client, exitStatus, sel,
                  step, callIx, carePlan, updated, allDone>>

\* after PickCarePlan: a plan was picked
PlanNext ==
    /\ pc = "stagePlanned"
    /\ err = NoErr
    /\ options # <<>>
    /\ options' = <<>>
    /\ NextStage
    /\ UNCHANGED <<patientID, err, slot, errh, apiErr, elapsed, start, apc,
                  spawned, wg, gpc, now, deadline, dur, slowest, calls, fetched, vc,
                  wgvc, det, writers, shown, callerReads, store, menus, act, confirm,
                  rt, ids, deleted, issued, environ, client, exitStatus, sel, carePlan,
                  updated, allDone>>

\* a prompt is aborted, or fails in an action that does not call
\* PressEnter then: the action returns
PromptReturn ==
    /\ pc = "stagePrompt"
    /\ \E e \in {ErrUserAborted, ErrTerminal} :
         /\ isAbort(e) \/ ~Cur.press
         /\ shown' = IF isAbort(e) THEN shown ELSE ShowError(e)
    /\ pc' = "menu"
    /\ LocalsReset
    /\ UNCHANGED <<store, menus, environ, client, exitStatus, sel>>

\* a prompt fails, or its input ends the action: PressEnter is called
PromptPress ==
    /\ pc = "stagePrompt"
    /\ \E s \in Cur.stops \cup
                 (IF Cur.press THEN {ShowError(ErrTerminal)} ELSE {}) :
         shown' = s
    /\ pc' = "pressEnter"
    /\ UNCHANGED <<options, patientID, err, slot, errh, apiErr, elapsed,
                  start, apc, spawned, wg, gpc, now, deadline, dur, slowest, calls,
                  fetched, vc, wgvc, det, writers, callerReads, store, menus, act,
                  confirm, rt, ids, deleted, issued, environ, client, exitStatus, sel,
                  step, callIx, carePlan, updated, allDone>>

\* a prompt returns its input
PromptNext ==
    /\ pc = "stagePrompt"
    /\ NextStage
    /\ UNCHANGED <<options, patientID, err, slot, errh, apiErr, elapsed,
                  start, apc, spawned, wg, gpc, now, deadline, dur, slowest, calls,
                  fetched, vc, wgvc, det, writers, shown, callerReads, store, menus,
                  act, confirm, rt, ids, deleted, issued, environ, client, exitStatus,
                  sel, carePlan, updated, allDone>>

\* the confirm prompt of an action lets it go on
ActConfirmed ==
    /\ pc = "stageConfirm"
    /\ \E o \in ConfirmOutcomes :
         /\ Proceeds(o.err, o.answer)
         /\ confirm' = IF o.answer THEN "yes" ELSE "no"
    /\ NextStage
    /\ UNCHANGED <<options, patientID, err, slot, errh, apiErr, elapsed,
                  start, apc, spawned, wg, gpc, now, deadline, dur, slowest, calls,
                  fetched, vc, wgvc, det, writers, shown, callerReads, store, menus,
                  act, rt, ids, deleted, issued, environ, client, exitStatus, sel,
                  carePlan, updated, allDone>>

\* the confirm prompt of an action ends it
ActDeclined ==
    /\ pc = "stageConfirm"
    /\ \E o \in ConfirmOutcomes : ~Proceeds(o.err, o.answer)
    /\ pc' = "menu"
    /\ LocalsReset
    /\ UNCHANGED <<shown, store, menus, environ, client, exitStatus, sel>>

\* the action of the spinner makes its next Store call, which returns
StageCall ==
    /\ pc = "stageRun"
    /\ callIx < Len(Cur.calls)
    /\ \E e \in {NoErr} \cup SdkErrors :
         LET c == Cur.calls[callIx + 1]
             failed == e # NoErr
         IN  /\ issued' = Issue(c.name)
             /\ apiErr' = IF failed /\ apiErr = NoErr THEN Wrap(c.label, e)
                          ELSE apiErr
             /\ pc' = IF \/ failed /\ ~Cur.all
                         \/ callIx + 1 = Len(Cur.calls)
                      THEN "stageRan" ELSE "stageRun"
    /\ callIx' = callIx + 1
    /\ UNCHANGED <<options, patientID, err, slot, errh, elapsed, start, apc,
                  spawned, wg, gpc, now, deadline, dur, slowest, calls, fetched, vc,
                  wgvc, det, writers, shown, callerReads, store, menus, act, confirm,
                  rt, ids, deleted, environ, client, exitStatus, sel, step, carePlan,
                  updated, allDone>>

\* the spinner's Run returns: its error or that of the Store call is
\* shown, or the action ends here with what it prints; PressEnter is
\* called
RanPress ==
    /\ pc = "stageRan"
    /\ \E e \in {NoErr, ErrTerminal} :
         /\ err' = e
         /\ \E s \in (IF e # NoErr THEN {ShowError(e)}
                       ELSE IF apiErr # NoErr THEN {ShowError(apiErr)}
                       ELSE Cur.stops) :
              shown' = s
    /\ pc' = "pressEnter"
    /\ UNCHANGED <<options, patientID, slot, errh, apiErr, elapsed, start,
                  apc, spawned, wg, gpc, now, deadline, dur, slowest, calls, fetched,
                  vc, wgvc, det, writers, callerReads, store, menus, act, confirm, rt,
                  ids, deleted, issued, environ, client, exitStatus, sel, step, callIx,
                  carePlan, updated, allDone>>

\* the spinner's Run returns and the action goes on
RanNext ==
    /\ pc = "stageRan"
    /\ apiErr = NoErr
    /\ ~Last
    /\ NextStage
    /\ UNCHANGED <<options, patientID, err, slot, errh, apiErr, elapsed,
                  start, apc, spawned, wg, gpc, now, deadline, dur, slowest, calls,
                  fetched, vc, wgvc, det, writers, shown, callerReads, store, menus,
                  act, confirm, rt, ids, deleted, issued, environ, client, exitStatus,
                  sel, carePlan, updated, allDone>>

\* ClinicDashboard calls resolvePatientName, which calls ReadResource
NamesCall ==
    /\ pc = "stageNames"
    /\ callIx < MaxNames
    /\ issued' = Issue("ReadResource")
    /\ callIx' = callIx + 1
    /\ UNCHANGED <<pc, options, patientID, err, slot, errh, apiErr, elapsed,
                  start, apc, spawned, wg, gpc, now, deadline, dur, slowest, calls,
                  fetched, vc, wgvc, det, writers, shown, callerReads, store, menus,
                  act, confirm, rt, ids, deleted, environ, client, exitStatus, sel,
                  step, carePlan, updated, allDone>>

\* ClinicDashboard prints the dashboard and calls PressEnter
NamesDone ==
    /\ pc = "stageNames"
    /\ \E s \in Cur.stops : shown' = s
    /\ pc' = "pressEnter"
    /\ UNCHANGED <<options, patientID, err, slot, errh, apiErr, elapsed,
                  start, apc, spawned, wg, gpc, now, deadline, dur, slowest, calls,
                  fetched, vc, wgvc, det, writers, callerReads, store, menus, act,
                  confirm, rt, ids, deleted, issued, environ, client, exitStatus, sel,
                  step, callIx, carePlan, updated, allDone>>

\* searchByTag for the next resource type returns, the content of the
\* Store left open: it holds any number k of tagged resources of the type
AppUnseedSearch ==
    /\ pc = "unseedSearch"
    /\ \E k \in 0..MaxPage :
         \E resp \in TagSearchResponses([t \in Tasks |-> [seed |-> k, own |-> 0]],
                                       resourceTypes[rt]) :
           UnseedSearchOn(resp)
    /\ UNCHANGED <<options, patientID, err, slot, errh, elapsed, start, apc,
                  spawned, wg, gpc, now, deadline, dur, slowest, calls, fetched, vc,
                  wgvc, det, writers, shown, callerReads, store, menus, act, confirm,
                  deleted, environ, client, exitStatus, sel, step, callIx, carePlan,
                  updated, allDone>>

\* DeleteResource for the next id returns, the content of the Store left
\* open
AppUnseedDelete ==
    /\ pc = "unseedDelete"
    /\ \E e \in {NoErr} \cup SdkErrors : UnseedDeleteOn(e)
    /\ UNCHANGED <<options, patientID, err, slot, errh, elapsed, start, apc,
                  spawned, wg, gpc, now, deadline, dur, slowest, calls, fetched, vc,
                  wgvc, det, writers, shown, callerReads, store, menus, act, confirm,
                  environ, client, exitStatus, sel, step, callIx, carePlan, updated,
                  allDone>>

----------------------------------------------------------------------------
(* CompleteActivity from the read of the care plan on *)

\* the spinner with ReadResource returns and CompleteActivity looks at the
\* plan: an error, a body that does not parse, or a plan with a status
\* and up to MaxActivities activities
CompleteRead ==
    /\ pc = "completeRead"
    /\ issued' = Issue("ReadResource")
    /\ \/ /\ \E e \in {ErrTerminal, Wrap("parsing care plan: ", UnmarshalErr)}
                       \cup {Wrap("reading care plan: ", x) : x \in SdkErrors} :
                shown' = ShowError(e)
          /\ pc' = "pressEnter"
          /\ UNCHANGED <<carePlan, options>>
       \/ \E n \in 0..MaxActivities, st \in {"active", "on-hold"} :
            \E as \in [1..n ->
                         {[isMap |-> FALSE, hasDetail |-> FALSE, status |-> ""],
                          [isMap |-> TRUE, hasDetail |-> FALSE, status |-> ""],
                          [isMap |-> TRUE, hasDetail |-> TRUE, status |-> ""],
                          [isMap |-> TRUE, hasDetail |-> TRUE,
                           status |-> "not-started"],
                          [isMap |-> TRUE, hasDetail |-> TRUE,
                           status |-> "completed"]}] :
              /\ carePlan' = [status |-> st, activity |-> as]
              /\ options' = IncompleteOptions(as)
              /\ shown' =
                    IF n = 0
                    THEN Printed("No activities in this care plan.", 0)
                    ELSE IF IncompleteOptions(as) = <<>>
                    THEN Printed("All activities are already completed.", 0)
                    ELSE shown
              /\ pc' = IF IncompleteOptions(as) = <<>> THEN "pressEnter"
                       ELSE "completeSelect"
    /\ UNCHANGED <<patientID, err, slot, errh, apiErr, elapsed, start, apc,
                  spawned, wg, gpc, now, deadline, dur, slowest, calls, fetched, vc,
                  wgvc, det, writers, callerReads, store, menus, act, confirm, rt, ids,
                  deleted, environ, client, exitStatus, sel, step, callIx, updated,
                  allDone>>

\* the activity select returns: aborted, failed, or with one of its
\* options, and then the plan to send is computed
CompleteSelect ==
    /\ pc = "completeSelect"
    /\ \/ /\ pc' = "menu"
          /\ LocalsReset
          /\ UNCHANGED shown
       \/ /\ \/ /\ shown' = ShowError(ErrTerminal)
                /\ pc' = "pressEnter"
                /\ UNCHANGED <<updated, allDone>>
             \/ /\ \E k \in 1..Len(options) :
                      /\ updated' = completeActivity(carePlan, options[k]).body
                      /\ allDone' =
                            completeActivity(carePlan, options[k]).allDone
                /\ pc' = "completeUpdate"
                /\ UNCHANGED shown
          /\ UNCHANGED <<options, patientID, err, slot, errh, apiErr,
                         elapsed, start, apc, spawned, wg, gpc, deadline,
                         dur, slowest, calls, fetched, vc, wgvc, det,
                         writers, callerReads, now, act, confirm, rt, ids,
                         deleted, issued, step, callIx, carePlan>>
    /\ UNCHANGED <<store, menus, environ, client, exitStatus, sel>>

\* the spinner with UpdateResource returns and CompleteActivity reports
CompleteUpdate ==
    /\ pc = "completeUpdate"
    /\ issued' = Issue("UpdateResource")
    /\ \E e \in {NoErr, ErrTerminal}
                 \cup {Wrap("updating care plan: ", x) : x \in SdkErrors} :
         shown' = IF e # NoErr THEN ShowError(e)
                  ELSE IF allDone
                  THEN Printed("Completed activity: %s. All activities completed - plan marked as completed.", 0)
                  ELSE Printed("Completed activity: %s", 0)
    /\ pc' = "pressEnter"
    /\ UNCHANGED <<options, patientID, err, slot, errh, apiErr, elapsed,
                  start, apc, spawned, wg, gpc, now, deadline, dur, slowest, calls,
                  fetched, vc, wgvc, det, writers, callerReads, store, menus, act,
                  confirm, rt, ids, deleted, environ, client, exitStatus, sel, step,
                  callIx, carePlan, updated, allDone>>

----------------------------------------------------------------------------

Next ==
    \/ MenuSummary
    \/ MenuExit
    \/ MenuError
    \/ PickLoad
    \/ PickSelect
    \/ SummaryNoPatient
    \/ SummaryRun
    \/ RunReturn
    \/ AfterRun
    \/ PressEnter
    \/ ActStart
    \/ ActGo
    \/ ActWait
    \/ ActElapsed
    \/ ActSelect
    \/ \E t \in Tasks : GoCall(t)
    \/ \E t \in Tasks : GoReturn(t)
    \/ TickWait
    \/ TickIdle

Spec == Init /\ [][Next]_vars

\* DeleteSeedData, run any number of times against a Store that earlier
\* runs of SeedData and other clients have filled
InitStore ==
    /\ pc = "menu"
    /\ now = 0
    /\ FreshInvocation
    /\ NoAction
    /\ Started
    /\ \E k \in 0..MaxEarlierRuns, n \in 0..MaxOwn : store = Seeded(k, n)

NextStore ==
    \/ MenuUnseed
    \/ UnseedConfirmed
    \/ UnseedDeclined
    \/ UnseedSearch
    \/ UnseedDelete
    \/ UnseedReturn
    \/ PressEnter

SpecStore == InitStore /\ [][NextStore]_vars

\* The whole process, from main on, in every environment, against a
\* Store whose content is left open
InitApp ==
    /\ pc = "boot"
    /\ environ \in Environs
    /\ client = "unset"
    /\ exitStatus = Running
    /\ sel = "none"
    /\ menus = <<>>
    /\ now = 0
    /\ FreshInvocation
    /\ NoAction
    /\ store = Seeded(0, 0)

NextApp ==
    \/ Initialize
    \/ Main
    \/ MenuSummary
    \/ MenuUnseed
    \/ MenuEnter
    \/ MenuBack
    \/ MenuAct
    \/ MenuError
    \/ MenuExit
    \/ PickLoad
    \/ PickSelect
    \/ PickedReturn
    \/ PickedPress
    \/ PickedNext
    \/ PlanLoad
    \/ PlanReturn
    \/ PlanPress
    \/ PlanNext
    \/ PromptReturn
    \/ PromptPress
    \/ PromptNext
    \/ ActConfirmed
    \/ ActDeclined
    \/ StageCall
    \/ RanPress
    \/ RanNext
    \/ NamesCall
    \/ NamesDone
    \/ UnseedConfirmed
    \/ UnseedDeclined
    \/ AppUnseedSearch
    \/ AppUnseedDelete
    \/ UnseedReturn
    \/ PressEnter

SpecApp == InitApp /\ [][NextApp]_vars

\* CompleteActivity, called from the Health Plans menu, after PickPatient
\* and PickCarePlan returned a patient and a care plan
InitComplete ==
    /\ pc = "completeRead"
    /\ environ = DemoEnviron
    /\ client = "set"
    /\ exitStatus = Running
    /\ menus = <<"main", "manage", "health">>
    /\ sel = "complete"
    /\ act = "complete"
    /\ step = 3
    /\ callIx = 0
    /\ issued = [n |-> 2, last |-> "searchCarePlans"]
    /\ patientID = "p1"
    /\ options = <<>>
    /\ err = NoErr
    /\ slot = [v \in ResultVars |-> <<>>]
    /\ errh = [v \in ErrVars |-> NoErr]
    /\ apiErr = NoErr
    /\ elapsed = 0
    /\ start = 0
    /\ apc = "idle"
    /\ spawned = 0
    /\ wg = 0
    /\ gpc = [t \in Tasks |-> "none"]
    /\ deadline = [t \in Tasks |-> 0]
    /\ dur = [t \in Tasks |-> 0]
    /\ slowest = 0
    /\ calls = [t \in Tasks |-> 0]
    /\ fetched = [t \in Tasks |-> NotFetched]
    /\ vc = [t \in Threads |-> InitClock(t)]
    /\ wgvc = ZeroClock
    /\ det = NoAccess
    /\ writers = [v \in SharedVars |-> <<>>]
    /\ shown = NoShow
    /\ callerReads = {}
    /\ now = 0
    /\ confirm = "unset"
    /\ rt = 0
    /\ ids = NoIds
    /\ deleted = 0
    /\ carePlan = [status |-> "", activity |-> <<>>]
    /\ updated = [status |-> "", activity |-> <<>>]
    /\ allDone = FALSE
    /\ store = Seeded(0, 0)

NextComplete ==
    \/ CompleteRead
    \/ CompleteSelect
    \/ CompleteUpdate
    \/ PressEnter

SpecComplete == InitComplete /\ [][NextComplete]_vars

\* the composite fetch with Store calls that may never return
NextHang ==
    \/ Next
    \/ \E t \in Tasks : GoCallHang(t)

\* a step of the composite fetch: of the spinner, of the action or of a
\* goroutine, the return of a Store call, or time passing while calls are
\* pending
FetchStep ==
    \/ SummaryRun
    \/ RunReturn
    \/ ActStart
    \/ ActGo
    \/ ActWait
    \/ ActElapsed
    \/ ActSelect
    \/ \E t \in Tasks : GoCall(t) \/ GoCallHang(t) \/ GoReturn(t)
    \/ TickWait

\* the Go scheduler runs a goroutine that can run and the Store answers
\* every call that is not one of those that never return: while the
\* caller is inside Run only steps of the fetch are possible, and one of
\* them is taken; the user at a prompt is under no obligation
Fairness == WF_vars(FetchStep)

SpecHang == Init /\ [][NextHang]_vars /\ Fairness

----------------------------------------------------------------------------
(* Properties *)

\* the variables keep their shapes
TypeOK ==
    /\ pc \in {"menu", "pick", "pickSelect", "picked", "run", "afterRun",
               "pressEnter", "exit"}
    /\ apc \in {"idle", "start", "spawn", "wait", "elapsed", "select",
                "finished"}
    /\ \A t \in Tasks : gpc[t] \in {"none", "ready", "calling", "done"}
    /\ wg \in 0..WgAdd

\* the fetch of task t has failed
Failed(t) == fetched[t].returned /\ fetched[t].err # NoErr

\* the fetch of task t has succeeded
Succeeded(t) == fetched[t].returned /\ fetched[t].err = NoErr

\* wg.Wait has returned
Joined == apc \in {"elapsed", "select", "finished"}

\* the position of a task in the priority order
Rank(t) == CHOOSE i \in 1..Len(GoOrder) : GoOrder[i] = t

\* task t is the failed task of the highest priority
FirstFailed(t) ==
    /\ Failed(t)
    /\ \A u \in Tasks : Failed(u) => Rank(t) <= Rank(u)

\* the label of the error of a task
Label(t) ==
    CASE t = "Patient" -> "reading patient: "
      [] t = "Observation" -> "loading observations: "
      [] t = "Condition" -> "loading conditions: "
      [] t = "CarePlan" -> "loading care plans: "

\* C1: when the action has returned and at least one fetch failed, apiErr
\* is the failure of the failed fetch that is first in the order patient,
\* observations, conditions, care plans (its error under its own label, or
\* the not-found message for the patient read), whichever fetches failed
\* and in whichever order the goroutines completed; and that error is the
\* one shown when the spinner did not fail itself.
C1_PriorityError ==
    \A t \in Tasks :
      (apc = "finished" /\ FirstFailed(t)) =>
        /\ apiErr # NoErr
        /\ IF t = "Patient" /\ fetched[t].err.kind = "NotFound"
           THEN apiErr.msg = "patient " \o patientID \o " not found"
           ELSE apiErr = [kind |-> fetched[t].err.kind,
                          msg |-> Label(t) \o fetched[t].err.msg]
        /\ (pc = "pressEnter" /\ err = NoErr) => shown = ShowError(apiErr)

\* C1 witness: observations and care plans failed, patient and conditions
\* succeeded, and the observations error was shown
C1_Witness ==
    /\ pc = "pressEnter" /\ err = NoErr
    /\ Failed("Observation") /\ Failed("CarePlan")
    /\ Succeeded("Patient") /\ Succeeded("Condition")
    /\ shown.msg = "loading observations: " \o fetched["Observation"].err.msg

\* C2: the join is unconditional: the action is past wg.Wait (it records
\* the elapsed time and selects the error only there) only when each of
\* the four goroutines has started its Store call, got a result or an
\* error from it and returned; a failed fetch leaves its siblings running.
C2_JoinUnconditional ==
    Joined =>
      \A t \in Tasks :
        gpc[t] = "done" /\ fetched[t].returned /\ calls[t] = 1

\* C2 witness: the join has returned after a fetch failed and another
\* succeeded
C2_Witness ==
    /\ apc = "elapsed"
    /\ \E t, u \in Tasks : Failed(t) /\ Succeeded(u)

\* C3: when a fetch has failed, the summary is not printed and the caller
\* reads none of the result variables (nor elapsed).
C3_NoAggregateOnFailure ==
    (\E t \in Tasks : Failed(t)) =>
      /\ shown.kind # "summary"
      /\ callerReads \cap (ResultVars \cup {"elapsed"}) = {}

\* C3 witness: PatientSummary has shown an error after the observations
\* fetch failed, while the conditions fetch had written its result
C3_Witness ==
    /\ pc = "pressEnter"
    /\ shown.kind = "error"
    /\ Failed("Observation") /\ Succeeded("Condition")
    /\ slot["conditions"] # <<>>
    /\ callerReads = {"apiErr"}

\* C4: when all four fetches succeeded, apiErr is nil, and the summary
\* printed (when the spinner did not fail itself) gets four arguments:
\* the patient, observations, conditions and care plans, each as its own
\* fetch returned it, the patient being one resource.
C4_AllSucceed ==
    (apc = "finished" /\ \A t \in Tasks : Succeeded(t)) =>
      /\ apiErr = NoErr
      /\ (pc = "pressEnter" /\ err = NoErr) =>
            /\ shown.kind = "summary"
            /\ shown.args = <<fetched["Patient"].res,
                              fetched["Observation"].res,
                              fetched["Condition"].res,
                              fetched["CarePlan"].res>>
            /\ Len(shown.args[1]) = 1
            /\ shown.total = 1 + Len(fetched["Observation"].res)
                                + Len(fetched["Condition"].res)
                                + Len(fetched["CarePlan"].res)

\* C4 witness: a summary was printed with conditions found and no care
\* plans
C4_Witness ==
    /\ pc = "pressEnter"
    /\ shown.kind = "summary"
    /\ \A t \in Tasks : Succeeded(t)
    /\ fetched["Condition"].res # <<>>
    /\ fetched["CarePlan"].res = <<>>

\* C5: when the patient read failed with the not-found kind, apiErr is
\* the message "patient <id> not found" and not a wrap of the Store's
\* error, whatever the searches returned; it is the error shown when the
\* spinner did not fail itself.
C5_NotFoundFraming ==
    (apc = "finished" /\ fetched["Patient"].sdk.kind = "NotFound") =>
      /\ apiErr = [kind |-> "Plain",
                   msg |-> "patient " \o patientID \o " not found"]
      /\ (pc = "pressEnter" /\ err = NoErr) =>
            shown.msg = "patient " \o patientID \o " not found"

\* C5 witness: "patient p2 not found" was shown although the
\* observations search failed with a transport error
C5_Witness ==
    /\ pc = "pressEnter"
    /\ fetched["Patient"].sdk.kind = "NotFound"
    /\ fetched["Observation"].sdk.kind = "Transport"
    /\ shown.msg = "patient p2 not found"

\* the goroutine of each result variable and error holder
OwnerOf ==
    [v \in ResultVars \cup ErrVars |->
       CASE v \in {"patient", "patientErr"} -> "Patient"
         [] v \in {"observations", "observationsErr"} -> "Observation"
         [] v \in {"conditions", "conditionsErr"} -> "Condition"
         [] v \in {"plans", "plansErr"} -> "CarePlan"]

\* a thread is one of the goroutines
IsGoroutine(th) == th \in Tasks

\* the goroutines that wrote variable v, in order
GoWriters(v) == SelectSeq(writers[v], IsGoroutine)

\* C6: a result variable or error holder is written by no goroutine but
\* its own and at most once; after the join every result variable was
\* written exactly once and holds the result of its own fetch when that
\* fetch succeeded.
C6_SlotOwnership ==
    \A v \in ResultVars \cup ErrVars :
      /\ Len(GoWriters(v)) <= 1
      /\ \A i \in 1..Len(GoWriters(v)) : GoWriters(v)[i] = OwnerOf[v]
      /\ (Joined /\ v \in ResultVars) =>
            /\ GoWriters(v) = <<OwnerOf[v]>>
            /\ Succeeded(OwnerOf[v]) => slot[v] = fetched[OwnerOf[v]].res

\* C6 witness: after the join, with observations and conditions found
C6_Witness ==
    /\ apc = "select"
    /\ slot["observations"] # <<>> /\ slot["conditions"] # <<>>
    /\ GoWriters("conditions") = <<"Condition">>
    /\ Failed("CarePlan")

\* C7: no two accesses of a variable of PatientSummary, one of them a
\* write, are unordered by happens-before; and the action and the caller
\* have read a result variable or an error holder only after the join,
\* when every goroutine had returned.
C7_NoDataRace ==
    /\ det.race = {}
    /\ \A v \in ResultVars \cup ErrVars :
         (det.R[v]["action"] # 0 \/ det.R[v]["main"] # 0) =>
           Joined /\ \A t \in Tasks : gpc[t] = "done"

\* C7 witness: the error selection has read all four error holders and
\* the caller has read the result variables the goroutines wrote
C7_Witness ==
    /\ pc = "pressEnter"
    /\ det.R["plansErr"]["action"] # 0
    /\ det.W["plansErr"]["CarePlan"] # 0
    /\ det.R["plans"]["main"] # 0
    /\ det.W["plans"]["CarePlan"] # 0

\* C8: each of the four Store operations is started at most once, and
\* exactly once by the time of the join, whatever the fetches returned.
C8_ExactlyOnce ==
    \A t \in Tasks :
      /\ calls[t] <= 1
      /\ Joined => calls[t] = 1

\* C8 witness: the action has returned after the patient read and the
\* conditions search failed
C8_Witness ==
    /\ apc = "finished"
    /\ Failed("Patient") /\ Failed("Condition")
    /\ \A t \in Tasks : calls[t] = 1

\* the searches
Searches == {"Observation", "Condition", "CarePlan"}

C10_ElapsedIsSlowest ==
    apc \in {"select", "finished"} =>
      /\ elapsed = slowest
      /\ elapsed \in 1..MaxDur
      /\ shown.kind = "summary" => shown.elapsed = slowest

\* C10 witness: a fetch that started at clock 1 and whose slowest Store
\* call took two ticks
C10_Witness ==
    /\ apc = "finished"
    /\ start = 1
    /\ slowest = 2
    /\ elapsed = 2

\* the Store call of task t never returns
Hung(t) == gpc[t] = "calling" /\ deadline[t] = Never

AnyHung == \E t \in Tasks : Hung(t)

ARank ==
    [idle |-> 0, start |-> 0, spawn |-> 1, wait |-> 2, elapsed |-> 3,
     select |-> 4, finished |-> 5]

GRank == [none |-> 0, ready |-> 1, calling |-> 2, done |-> 3]

RECURSIVE SumGRank(_)
SumGRank(S) ==
    IF S = {} THEN 0
    ELSE LET t == CHOOSE u \in S : TRUE IN GRank[gpc[t]] + SumGRank(S \ {t})

\* how far the fetch has come: the positions of the action and of the
\* goroutines, and the time spent waiting; at most 5 + 4 * 3 + 4 + MaxDur
FetchProgress == ARank[apc] + spawned + SumGRank(Tasks) + now

\* C11: the composite fetch has no cancellation or timeout.  While the
\* caller is inside Run and no Store call is one that never returns, a
\* step of the fetch is possible, and every step taken inside Run moves
\* the fetch forward on a bounded scale: under weak fairness of FetchStep
\* the fetch completes and Run returns with a result or an error.  While a
\* Store call that never returns is pending, it stays pending, the action
\* stays before the end of wg.Wait and the caller stays inside Run: the
\* fetch never completes.
C11_CompletesIffAllReturn ==
    /\ []((pc = "run" /\ ~AnyHung) => ENABLED FetchStep)
    /\ [][(pc = "run" /\ pc' = "run") => FetchProgress' > FetchProgress]_vars
    /\ [](AnyHung => (pc = "run" /\ ~Joined))
    /\ [][AnyHung => AnyHung']_vars

\* C11 witness: the observations call never returns, the three other
\* goroutines have returned, and the action is blocked in wg.Wait
C11_Witness ==
    /\ pc = "run" /\ apc = "wait"
    /\ Hung("Observation")
    /\ \A t \in Tasks \ {"Observation"} : gpc[t] = "done"

\* C12: a failed composite fetch is never fatal.  When PickPatient, the
\* spinner's Run or the fetch left an error that is not the user's abort,
\* the next step of PatientSummary shows that error and waits in
\* PressEnter; from PressEnter control goes to the select of MainMenu;
\* and the process ends from the select of MainMenu only, never from
\* inside PatientSummary.
C12_FailedFetchNotFatal ==
    [][/\ (pc = "picked" /\ err # NoErr /\ ~isAbort(err)) =>
            (pc' = "pressEnter" /\ shown' = ShowError(err))
       /\ (pc = "afterRun" /\ err # NoErr) =>
            (pc' = "pressEnter" /\ shown' = ShowError(err))
       /\ (pc = "afterRun" /\ err = NoErr /\ apiErr # NoErr) =>
            (pc' = "pressEnter" /\ shown' = ShowError(apiErr))
       /\ pc = "pressEnter" => pc' = "menu"
       /\ pc # "menu" => pc' # "exit"]_vars

\* C12 witness: the fetch failed, its error is on the screen and
\* PatientSummary waits in PressEnter before it returns to MainMenu
C12_Witness ==
    /\ pc = "pressEnter"
    /\ apiErr # NoErr
    /\ shown = ShowError(apiErr)

SeedTagged(t) == store[t].seed

\* C13: DeleteSeedData deletes resources that carry the seed tag only:
\* whatever the Store holds and whatever the outcome of its calls, no
\* step changes the number of untagged resources of any type, and the
\* resource a step deletes is a tagged one.
C13_OnlySeedTagged ==
    [][/\ \A t \in Tasks : store'[t].own = store[t].own
       /\ \A t \in Tasks : store'[t].seed <= store[t].seed
       /\ deleted' > deleted =>
            \E t \in Tasks : store'[t].seed = store[t].seed - 1]_vars

\* C13 witness: a run of DeleteSeedData reports two runs of SeedData
\* deleted while every type keeps its untagged resource
C13_Witness ==
    /\ pc = "pressEnter"
    /\ act = "unseed"
    /\ shown = Printed("Deleted %d seed resources.", 148)
    /\ \A t \in Tasks : store[t] = [seed |-> 0, own |-> 1]

\* a run of DeleteSeedData has ended without error
UnseedSucceeded ==
    /\ pc = "pressEnter"
    /\ act = "unseed"
    /\ shown.kind = "text"

\* C14: after a run of DeleteSeedData that ends without error no
\* resource of any of the four types carries the seed tag, whatever the
\* number of earlier SeedData runs.
C14_NoSeedDataLeft ==
    UnseedSucceeded => \A t \in Tasks : SeedTagged(t) = 0

\* C15: when DeleteSeedData deletes a seed-tagged Patient, no
\* seed-tagged CarePlan, Observation or Condition is left.
C15_DependentsFirst ==
    [][store'["Patient"].seed < store["Patient"].seed =>
         \A t \in Tasks \ {"Patient"} : SeedTagged(t) = 0]_vars

----------------------------------------------------------------------------
(* The start of the process and the menus *)

\* the URLs the contract lets pass, on the string as it is written: a URL
\* that parses and has a scheme, the scheme https in any case, or the
\* scheme http in any case with a host that is localhost in any case,
\* 127.0.0.1 or ::1
AllowedURL(u) ==
    /\ u.ok
    /\ u.scheme # ""
    /\ \/ u.scheme \in {"https", "Https"}
       \/ /\ u.scheme \in {"http", "HTTP"}
          /\ u.host \in {"localhost", "LocalHost", "127.0.0.1", "[::1]"}

\* C16: Initialize accepts PHENOSTORE_URL only if it is an absolute URL
\* whose scheme is https, or whose scheme is http and whose host is
\* localhost, 127.0.0.1 or ::1, scheme and host compared without regard to
\* case; for every other URL Initialize has returned an error and no
\* client exists, at every moment after the call.
C16_URLRule ==
    (pc # "boot" /\ ~AllowedURL(environ.url)) =>
        /\ client = "unset"
        /\ err # NoErr
        /\ pc \in {"initialized", "exit"}

\* C16 witness: Initialize has accepted HTTP://[::1]:8080
C16_Witness ==
    /\ pc = "initialized"
    /\ client = "set"
    /\ err = NoErr
    /\ environ.url = [ok |-> TRUE, scheme |-> "HTTP", host |-> "[::1]",
                      port |-> ":8080", path |-> ""]

\* one of the five variables is empty, the URL is not one the contract
\* lets pass, or the creation of the client fails
Misconfigured(e) ==
    \/ e.url = EmptyURL
    \/ e.clientID = ""
    \/ e.clientSecret = ""
    \/ e.tenant = ""
    \/ e.store = ""
    \/ ~AllowedURL(e.url)
    \/ e.newClient # NoErr

\* C17: the main menu is reached only after a successful Initialize: in
\* a misconfigured environment Initialize returns an error with Client
\* left unset, the next step of main is the exit with status 1, and no
\* menu runs, no action runs and no Store call is issued; and whenever a
\* menu or an action runs or a Store call was issued, Client is set.
C17_MenuOnlyAfterInitialize ==
    /\ []((pc # "boot" /\ Misconfigured(environ)) =>
            /\ client = "unset"
            /\ err # NoErr
            /\ pc \in {"initialized", "exit"}
            /\ pc = "exit" => exitStatus = 1
            /\ menus = <<>>
            /\ act = "none"
            /\ issued = NoneIssued)
    /\ []((menus # <<>> \/ act # "none" \/ issued # NoneIssued) =>
            client = "set")
    /\ [][(pc = "initialized" /\ err # NoErr) =>
            (pc' = "exit" /\ exitStatus' = 1 /\ client' = "unset")]_vars

\* C17 witness: the process has exited with status 1 because the creation
\* of the client failed
C17_Witness ==
    /\ pc = "exit"
    /\ exitStatus = 1
    /\ client = "unset"
    /\ shown.kind = "stderr"
    /\ shown.msg = "Error: creating client: invalid client configuration"

\* the menu every menu below MainMenu is called from, after the README
ParentMenu ==
    [manage |-> "main", patient |-> "manage", clinical |-> "manage",
     health |-> "manage"]

\* C18: an abort of the select of MainMenu ends the program; an abort of
\* the select of the Manage Data, Patient Management, Clinical Records or
\* Health Plans menu returns to exactly its parent menu, and the choice
\* Back does the same; after an error of the select that is not an abort
\* the error is shown and the same menu is offered again.
C18_AbortGoesBack ==
    [][pc = "menu" =>
        /\ (sel' = "abort" /\ Top = "main") =>
              (pc' = "exit" /\ exitStatus' = 0 /\ menus' = <<>>)
        /\ (sel' \in {"abort", "back"} /\ Top # "main") =>
              /\ pc' = "menu"
              /\ menus' = SubSeq(menus, 1, Len(menus) - 1)
              /\ menus'[Len(menus')] = ParentMenu[Top]
        /\ sel' = "error" =>
              /\ pc' = "menu"
              /\ menus' = menus
              /\ shown' = ShowError(ErrTerminal)]_vars

\* C18 witness: the select of a menu below Manage Data was aborted and
\* Manage Data is offered
C18_Witness ==
    /\ pc = "menu"
    /\ sel = "abort"
    /\ menus = <<"main", "manage">>

\* the Store calls that delete, write in bulk, or prepare the deletion of
\* the seed data
Guarded ==
    {"DeleteResource", "ProcessBundle", "searchByTag", "CreateResource",
     "UpdateResource"}

\* C19: DeletePatient, SeedData and DeleteSeedData issue DeleteResource,
\* ProcessBundle, a search by tag or any other write only after their
\* confirm prompt returned without error with the answer yes; when the
\* prompt returns no, is aborted or fails, the action returns to its menu
\* and has issued no such call.
C19_ConfirmFirst ==
    [][/\ (/\ act \in {"delete", "seed", "unseed"}
           /\ issued'.n > issued.n
           /\ issued'.last \in Guarded) => confirm = "yes"
       /\ (pc \in {"confirm", "stageConfirm"} /\ confirm' # "yes") =>
             (pc' = "menu" /\ issued'.n <= issued.n)]_vars

\* C19 witness: DeletePatient has called DeleteResource after the answer
\* yes
C19_Witness ==
    /\ pc = "stageRan"
    /\ act = "delete"
    /\ confirm = "yes"
    /\ issued = [n |-> 2, last |-> "DeleteResource"]

\* the actions that start with PickPatient
PickActions ==
    {"summary", "view", "update", "delete", "vitals-add", "vitals-view",
     "diagnosis-add", "diagnosis-view", "create", "add", "complete",
     "status"}

\* C20: when the Store holds no patient PickPatient returns ("", nil);
\* the action that called it then issues no further Store call and
\* returns to its menu, at once or after PressEnter.
C20_NoPatientNoCall ==
    [][/\ (pc = "pick" /\ shown' = NoPatientsFound) =>
             (pc' = "picked" /\ patientID' = "" /\ err' = NoErr)
       /\ (pc = "picked" /\ patientID = "" /\ err = NoErr) =>
             /\ act \in PickActions
             /\ pc' \in {"menu", "pressEnter"}
             /\ issued'.n <= issued.n
       /\ pc = "pressEnter" => (pc' = "menu" /\ issued'.n <= issued.n)]_vars

\* C20 witness: ViewPatient waits in PressEnter after PickPatient found no
\* patient, with the search of PickPatient as its only Store call
C20_Witness ==
    /\ pc = "pressEnter"
    /\ act = "view"
    /\ shown = NoPatientsFound
    /\ patientID = ""
    /\ err = NoErr
    /\ issued = [n |-> 1, last |-> "fetchAllPatients"]

----------------------------------------------------------------------------
(* CompleteActivity: the status of the plan *)

\* an activity that is completed
Completed(a) == a.isMap /\ a.hasDetail /\ a.status = "completed"

\* CompleteActivity has computed the plan it sends
PlanComputed == act = "complete" /\ pc \in {"completeUpdate", "pressEnter"}
                   /\ updated.activity # <<>>

\* C21: the plan CompleteActivity sends is the plan it read with one
\* activity that was not completed set to completed; its status is
\* "completed" exactly when all its activities are completed then, and
\* otherwise the status that was read; allDone, which decides the message
\* about the plan, says the same.
C21_PlanCompletedIffAllDone ==
    PlanComputed =>
        /\ \E i \in 1..Len(carePlan.activity) :
              /\ ~Completed(carePlan.activity[i])
              /\ updated.activity =
                    [carePlan.activity EXCEPT ![i].status = "completed"]
              /\ Completed(updated.activity[i])
        /\ allDone <=>
              \A j \in 1..Len(updated.activity) :
                  Completed(updated.activity[j])
        /\ updated.status = IF allDone THEN "completed" ELSE carePlan.status
        /\ carePlan.status # "completed"

\* C21 witness: the last open activity of a plan of two was completed, the
\* plan is sent as completed and the message says so
C21_Witness ==
    /\ pc = "pressEnter"
    /\ act = "complete"
    /\ carePlan.status = "active"
    /\ Len(carePlan.activity) = 2
    /\ Completed(carePlan.activity[1])
    /\ carePlan.activity[2].status = "not-started"
    /\ updated.status = "completed"
    /\ allDone
    /\ shown.kind = "text"

====
